---- MODULE Spec2Model ----
(***************************************************************************)
(* Merchant categorization subsystem of asset_management: the rule store   *)
(* and engine (categorization_engine.py), the cache and fuzzy matcher      *)
(* (util.py, categorize.py) and the review workflows (review_interface.py, *)
(* enhanced_review_workflow.py).                                           *)
(*                                                                         *)
(* Representation.  A Python str is a sequence of characters; a character  *)
(* is a one-letter string, and a non-ASCII character is named by its code  *)
(* point ("u697d").  A confidence is an integer number of hundredths       *)
(* (0.95 is 95), which keeps every comparison of the source.  A category   *)
(* name is a string; CategoryChars gives its characters where the source   *)
(* looks inside it.                                                        *)
(***************************************************************************)
EXTENDS Integers, Sequences, FiniteSets, TLC

VARIABLES
  rules,      \* CategorizationEngine.rules, the in-memory rule list
  client,     \* CategorizationEngine.client is not None
  cache,      \* category_cache.json as loaded: ordered <<key, category>> entries
  unknown,    \* unknown_categories.json: ordered records, one per merchant
  stats,      \* merchant_stats: aggregate amount per merchant of the billing data
  learning_data, \* categorization_learning.json: the entries appended by learn
  session,    \* EnhancedReviewWorkflow.current_session
  review,     \* position of the running review (plain or enhanced)
  presented,  \* merchants shown to the reviewer in the running review, in order
  last,       \* what the last operation was given, did and returned
  calls,      \* number of operations so far
  rules_file, \* categorization_rules.json
  saving,     \* the rule list a running _save_rules still has to write
  cache_file, \* category_cache.json on disk
  task_queue, \* AgentCoordinator.task_queue
  completed_tasks, \* AgentCoordinator.completed_tasks
  workflow,   \* the execute_workflow call in progress, if any
  unknown_parses \* whether the text of unknown_categories.json is a JSON document

vars ==
  <<rules, client, cache, unknown, stats, learning_data, session, review,
    presented, last, calls, rules_file, saving, cache_file, unknown_parses,
    task_queue, completed_tasks, workflow>>

-----------------------------------------------------------------------------
(* Strings *)

UpperChars ==
  <<"A", "B", "C", "D", "E", "F", "G", "H", "I", "J", "K", "L", "M",
    "N", "O", "P", "Q", "R", "S", "T", "U", "V", "W", "X", "Y", "Z">>

LowerChars ==
  <<"a", "b", "c", "d", "e", "f", "g", "h", "i", "j", "k", "l", "m",
    "n", "o", "p", "q", "r", "s", "t", "u", "v", "w", "x", "y", "z">>

\* str.lower() on the capitals, as a table.
LowerMap ==
  [c \in {UpperChars[i] : i \in DOMAIN UpperChars} |->
     LowerChars[CHOOSE i \in DOMAIN UpperChars : UpperChars[i] = c]]

\* str.lower() on one character: the ASCII capitals; the other characters of
\* the model (digits, punctuation, kana, kanji) have no case.
LowerChar(c) == IF c \in DOMAIN LowerMap THEN LowerMap[c] ELSE c

Lower(s) == [i \in 1..Len(s) |-> LowerChar(s[i])]

\* Python's `p in s` for two strings (the empty string is in every string).
Contains(p, s) ==
  \E i \in 1..(Len(s) - Len(p) + 1) : SubSeq(s, i, i + Len(p) - 1) = p

StartsWith(s, p) == Len(p) <= Len(s) /\ SubSeq(s, 1, Len(p)) = p

EndsWith(s, p) == Len(p) <= Len(s) /\ SubSeq(s, Len(s) - Len(p) + 1, Len(s)) = p

\* \s of a str pattern: the white space of the model's alphabet
\* (space, tab, ideographic space U+3000).
WhiteSpace == {" ", "\t", "u3000"}

-----------------------------------------------------------------------------
(* The category table and the seed rules *)

categories ==
  << [name |-> "Shopping",
      keywords |-> <<<<"a", "m", "a", "z", "o", "n">>,
                     <<"u697d", "u5929">>,
                     <<"u30a2", "u30de", "u30be", "u30f3">>,
                     <<"u30b7", "u30e7", "u30c3", "u30d4", "u30f3", "u30b0">>,
                     <<"s", "t", "o", "r", "e">>,
                     <<"s", "h", "o", "p">>>>],
     [name |-> "Utilities",
      keywords |-> <<<<"u30ac", "u30b9">>,
                     <<"u96fb", "u6c17">>,
                     <<"u6c34", "u9053">>,
                     <<"e", "l", "e", "c", "t", "r", "i", "c">>,
                     <<"g", "a", "s">>,
                     <<"w", "a", "t", "e", "r">>,
                     <<"u", "t", "i", "l", "i", "t", "y">>>>],
     [name |-> "Transportation",
      keywords |-> <<<<"u30bf", "u30af", "u30b7", "u30fc">>,
                     <<"g", "o">>,
                     <<"u96fb", "u8eca">>,
                     <<"u30d0", "u30b9">>,
                     <<"u4ea4", "u901a">>,
                     <<"t", "a", "x", "i">>,
                     <<"t", "r", "a", "i", "n">>,
                     <<"u", "b", "e", "r">>>>],
     [name |-> "Food & Dining",
      keywords |-> <<<<"u30ec", "u30b9", "u30c8", "u30e9", "u30f3">>,
                     <<"u98df", "u4e8b">>,
                     <<"r", "e", "s", "t", "a", "u", "r", "a", "n", "t">>,
                     <<"c", "a", "f", "e">>,
                     <<"f", "o", "o", "d">>,
                     <<"d", "i", "n", "i", "n", "g">>>>],
     [name |-> "Entertainment",
      keywords |-> <<<<"n", "e", "t", "f", "l", "i", "x">>,
                     <<"s", "p", "o", "t", "i", "f", "y">>,
                     <<"u6620", "u753b">>,
                     <<"e", "n", "t", "e", "r", "t", "a", "i", "n", "m", "e", "n", "t">>,
                     <<"m", "o", "v", "i", "e">>,
                     <<"m", "u", "s", "i", "c">>>>],
     [name |-> "Digital Services",
      keywords |-> <<<<"a", "p", "p", "l", "e">>,
                     <<"g", "o", "o", "g", "l", "e">>,
                     <<"m", "i", "c", "r", "o", "s", "o", "f", "t">>,
                     <<"d", "i", "g", "i", "t", "a", "l">>,
                     <<"s", "o", "f", "t", "w", "a", "r", "e">>,
                     <<"a", "p", "p">>>>],
     [name |-> "Healthcare",
      keywords |-> <<<<"u75c5", "u9662">>,
                     <<"u85ac">>,
                     <<"h", "o", "s", "p", "i", "t", "a", "l">>,
                     <<"p", "h", "a", "r", "m", "a", "c", "y">>,
                     <<"m", "e", "d", "i", "c", "a", "l">>,
                     <<"h", "e", "a", "l", "t", "h">>>>],
     [name |-> "Education",
      keywords |-> <<<<"u5b66", "u6821">>,
                     <<"u6559", "u80b2">>,
                     <<"s", "c", "h", "o", "o", "l">>,
                     <<"e", "d", "u", "c", "a", "t", "i", "o", "n">>,
                     <<"u", "n", "i", "v", "e", "r", "s", "i", "t", "y">>,
                     <<"c", "o", "u", "r", "s", "e">>>>],
     [name |-> "Clothing",
      keywords |-> <<<<"u", "n", "i", "q", "l", "o">>,
                     <<"u30e6", "u30cb", "u30af", "u30ed">>,
                     <<"u670d">>,
                     <<"c", "l", "o", "t", "h", "i", "n", "g">>,
                     <<"f", "a", "s", "h", "i", "o", "n">>,
                     <<"a", "p", "p", "a", "r", "e", "l">>>>],
     [name |-> "Financial",
      keywords |-> <<<<"u9280", "u884c">>,
                     <<"u91d1", "u878d">>,
                     <<"b", "a", "n", "k">>,
                     <<"f", "i", "n", "a", "n", "c", "e">>,
                     <<"c", "r", "e", "d", "i", "t">>,
                     <<"l", "o", "a", "n">>>>],
     [name |-> "Other",
      keywords |-> <<>>] >>

CategoryNames == [i \in DOMAIN categories |-> categories[i].name]

CategorySet == {categories[i].name : i \in DOMAIN categories}

CategoryChars(name) ==
  CASE name = "Shopping" -> <<"S", "h", "o", "p", "p", "i", "n", "g">>
    [] name = "Utilities" -> <<"U", "t", "i", "l", "i", "t", "i", "e", "s">>
    [] name = "Transportation" -> <<"T", "r", "a", "n", "s", "p", "o", "r", "t", "a", "t", "i", "o", "n">>
    [] name = "Food & Dining" -> <<"F", "o", "o", "d", " ", "&", " ", "D", "i", "n", "i", "n", "g">>
    [] name = "Entertainment" -> <<"E", "n", "t", "e", "r", "t", "a", "i", "n", "m", "e", "n", "t">>
    [] name = "Digital Services" -> <<"D", "i", "g", "i", "t", "a", "l", " ", "S", "e", "r", "v", "i", "c", "e", "s">>
    [] name = "Healthcare" -> <<"H", "e", "a", "l", "t", "h", "c", "a", "r", "e">>
    [] name = "Education" -> <<"E", "d", "u", "c", "a", "t", "i", "o", "n">>
    [] name = "Clothing" -> <<"C", "l", "o", "t", "h", "i", "n", "g">>
    [] name = "Financial" -> <<"F", "i", "n", "a", "n", "c", "i", "a", "l">>
    [] name = "Other" -> <<"O", "t", "h", "e", "r">>
    [] name = "Unknown" -> <<"U", "n", "k", "n", "o", "w", "n">>

high_confidence_rules ==
  << [pattern |-> <<"a", "m", "a", "z", "o", "n">>, category |-> "Shopping", confidence |-> 95],
     [pattern |-> <<"u30a2", "u30de", "u30be", "u30f3">>, category |-> "Shopping", confidence |-> 95],
     [pattern |-> <<"u6771", "u4eac", "u30ac", "u30b9">>, category |-> "Utilities", confidence |-> 99],
     [pattern |-> <<"g", "o", "(", "u30bf", "u30af", "u30b7", "u30fc">>, category |-> "Transportation", confidence |-> 95],
     [pattern |-> <<"a", "p", "p", "l", "e", " ", "c", "o", "m">>, category |-> "Digital Services", confidence |-> 90],
     [pattern |-> <<"u30e6", "u30cb", "u30af", "u30ed">>, category |-> "Clothing", confidence |-> 95],
     [pattern |-> <<"n", "e", "t", "f", "l", "i", "x">>, category |-> "Entertainment", confidence |-> 95] >>

-----------------------------------------------------------------------------
(* Rule store: CategoryRule, the seed rules, _apply_rules *)

DefaultConfidence == 80

LearnedConfidence == 60

HighConfidence == 70

\* CategoryRule; created_at is a wall-clock reading that no decision of the
\* code depends on and is left out.
CategoryRule(pattern, category, confidence, rule_type, created_by) ==
  [pattern |-> pattern, category |-> category, confidence |-> confidence,
   rule_type |-> rule_type, created_by |-> created_by, usage_count |-> 0]

\* The first loop of _initialize_default_rules from category i on: one
\* contains-rule per keyword, in the order of the table.
RECURSIVE KeywordRules(_)
KeywordRules(i) ==
  IF i > Len(categories) THEN <<>>
  ELSE [k \in DOMAIN categories[i].keywords |->
          CategoryRule(Lower(categories[i].keywords[k]), categories[i].name,
                       DefaultConfidence, "contains", "system")]
       \o KeywordRules(i + 1)

_initialize_default_rules ==
  KeywordRules(1)
  \o [i \in DOMAIN high_confidence_rules |->
        CategoryRule(Lower(high_confidence_rules[i].pattern),
                     high_confidence_rules[i].category,
                     high_confidence_rules[i].confidence, "contains", "system")]

\* categorization_rules.json: whether the file exists, whether its text is
\* the whole of a JSON document, and the rule entries the text holds.
RulesFile(exists, complete, data) ==
  [exists |-> exists, complete |-> complete, data |-> data]

AbsentFile == RulesFile(FALSE, FALSE, <<>>)

\* The entry _save_rules writes for a rule; created_at is "iso" for the text
\* isoformat() gives, and missing names the fields the entry does not have.
RuleData(rule) ==
  [pattern |-> rule.pattern, category |-> rule.category,
   confidence |-> rule.confidence, rule_type |-> rule.rule_type,
   created_by |-> rule.created_by, created_at |-> "iso",
   usage_count |-> rule.usage_count, missing |-> {}]

\* _save_rules(rules), the file after the write is through.
_save_rules(rs) == RulesFile(TRUE, TRUE, [i \in DOMAIN rs |-> RuleData(rs[i])])

\* No _save_rules is running.
NotSaving == [active |-> FALSE, data |-> <<>>]

\* category_cache.json: whether it exists, whether its text is a JSON
\* document, and the entries it holds.
CacheFile(exists, parses, data) == [exists |-> exists, parses |-> parses, data |-> data]

AbsentCache == CacheFile(FALSE, FALSE, <<>>)

\* No execute_workflow call is in progress.
NoWorkflow == [mode |-> "idle", workflow_type |-> "", results |-> <<>>]

\* re.search(pattern, merchant_lower, re.IGNORECASE) for the regular
\* expressions of the model: literal characters and ".", and "(" with no
\* closing parenthesis, which does not compile (re.error).
regex_compiles(pattern) == \A i \in DOMAIN pattern : pattern[i] # "("

regex_search(pattern, s) ==
  \E i \in 1..(Len(s) - Len(pattern) + 1) :
     \A j \in 1..Len(pattern) :
        pattern[j] = "." \/ LowerChar(pattern[j]) = LowerChar(s[i + j - 1])

\* The match of one rule in the loop of _apply_rules; a regex rule that does
\* not compile is skipped, a rule of any other type never matches.
RuleMatches(rule, merchant_lower) ==
  CASE rule.rule_type = "exact" -> merchant_lower = Lower(rule.pattern)
    [] rule.rule_type = "contains" -> Contains(Lower(rule.pattern), merchant_lower)
    [] rule.rule_type = "regex" ->
         regex_compiles(rule.pattern) /\ regex_search(rule.pattern, merchant_lower)
    [] OTHER -> FALSE

\* f"rule_{rule.rule_type}"
RuleMethod(rule_type) ==
  CASE rule_type = "exact" -> "rule_exact"
    [] rule_type = "contains" -> "rule_contains"
    [] rule_type = "regex" -> "rule_regex"
    [] OTHER -> "rule_other"

Triple(category, confidence, method) ==
  [category |-> category, confidence |-> confidence, method |-> method]

NoMatch == Triple("Unknown", 0, "no_match")

\* A mutant of BeatsBest: a later rule of equal confidence replaces the best.
BeatsBestOrEqual(confidence, best_confidence) == confidence >= best_confidence

\* `rule.confidence > best_confidence`
BeatsBest(confidence, best_confidence) == confidence > best_confidence

\* The loop of _apply_rules from rule i on: rs is the rule list with the
\* usage counts as updated so far, best the running best triple.
RECURSIVE ApplyFrom(_, _, _, _)
ApplyFrom(rs, i, merchant_lower, best) ==
  IF i > Len(rs) THEN [rules |-> rs, best |-> best]
  ELSE IF RuleMatches(rs[i], merchant_lower)
          /\ BeatsBest(rs[i].confidence, best.confidence)
       THEN ApplyFrom([rs EXCEPT ![i].usage_count = @ + 1], i + 1, merchant_lower,
                      Triple(rs[i].category, rs[i].confidence,
                             RuleMethod(rs[i].rule_type)))
       ELSE ApplyFrom(rs, i + 1, merchant_lower, best)

\* _apply_rules(merchant): the triple returned and the rule list it leaves.
_apply_rules(rs, merchant) == ApplyFrom(rs, 1, Lower(merchant), NoMatch)

-----------------------------------------------------------------------------
(* What an operation was given, did and returned *)

\* A Python value passed as a merchant: its type, its truth value and, for a
\* str, its characters.
Str(chars) == [type |-> "str", truthy |-> chars # <<>>, chars |-> chars]

NoTriple == Triple("", -1, "none")

NoInput == [type |-> "none", truthy |-> FALSE, chars |-> <<>>]

\* The remote classifier was not called.
NoResponse == [kind |-> "not_called", content |-> <<>>]

NoOp ==
  [op |-> "none", input |-> NoInput, outcome |-> "none", result |-> NoTriple,
   best |-> NoTriple, response |-> NoResponse, llm_calls |-> 0,
   llm_result |-> NoTriple, learn_calls |-> <<>>, rules_before |-> <<>>]

SeqsUpTo(S, n) == UNION {[1..k -> S] : k \in 0..n}

Idle == [mode |-> "idle", queue |-> <<>>]

\* The session _load_session returns when there is no session file.
NewSession ==
  [merchants_reviewed |-> 0, decisions_made |-> <<>>, patterns_learned |-> <<>>]

-----------------------------------------------------------------------------
(* _apply_rules on its own, over every rule list of a bounded pool *)

MaxRuleLen == 3

MaxApplyCalls == 1

\* Rules as a rule file may hold them: per pattern a contains rule at
\* confidence 0, 0.6 and 0.8 and an exact rule at 0.8 (a category per pattern
\* and type, so that two rules of equal confidence can be told apart), a regex
\* rule, and a regex rule that does not compile.
ApplyCategory(pattern, rule_type) ==
  IF pattern = <<"b">>
    THEN (IF rule_type = "exact" THEN "Clothing" ELSE "Financial")
    ELSE (IF rule_type = "exact" THEN "Shopping" ELSE "Utilities")

ApplyRulePool ==
  {CategoryRule(p, ApplyCategory(p, "contains"), f, "contains", "human") :
     p \in {<<"A", "b">>, <<"b">>}, f \in {0, 60, 80}}
  \cup {CategoryRule(p, ApplyCategory(p, "exact"), 80, "exact", "human") :
          p \in {<<"A", "b">>, <<"b">>}}
  \cup {CategoryRule(<<"a", ".">>, "Education", 80, "regex", "human"),
        CategoryRule(<<"(", "b">>, "Healthcare", 95, "regex", "human")}

ApplyMerchants == {<<"a", "b">>, <<"A", "B">>, <<"b">>, <<"x">>}

InitApply ==
  /\ rules \in SeqsUpTo(ApplyRulePool, MaxRuleLen)
  /\ client = FALSE
  /\ cache = <<>>
  /\ unknown = <<>>
  /\ stats = <<>>
  /\ learning_data = <<>>
  /\ session = NewSession
  /\ review = Idle
  /\ presented = <<>>
  /\ last = NoOp
  /\ calls = 0
  /\ rules_file = _save_rules(rules)
  /\ saving = NotSaving
  /\ cache_file = AbsentCache
  /\ task_queue = <<>>
  /\ completed_tasks = <<>>
  /\ workflow = NoWorkflow
  /\ unknown_parses = TRUE

\* engine._apply_rules(merchant)
ApplyRules(merchant) ==
  /\ calls < MaxApplyCalls
  /\ \E r \in {_apply_rules(rules, merchant)} :
       /\ rules' = r.rules
       /\ last' = [NoOp EXCEPT !.op = "apply", !.input = Str(merchant),
                               !.outcome = "return", !.result = r.best,
                               !.best = r.best, !.rules_before = rules]
  /\ calls' = calls + 1
  /\ UNCHANGED <<rules_file, saving>>
  /\ UNCHANGED <<client, cache, cache_file, task_queue, completed_tasks, workflow, unknown, unknown_parses, stats, learning_data, session, review,
                 presented>>

NextApply == \E merchant \in ApplyMerchants : ApplyRules(merchant)

SpecApply == InitApply /\ [][NextApply]_vars

\* The rules of rs that match merchant, by position.
MatchingRules(rs, merchant) ==
  {i \in DOMAIN rs : RuleMatches(rs[i], Lower(merchant))}

\* The earliest rule among those of M with the highest confidence.
FirstOfHighest(rs, M) ==
  CHOOSE i \in M :
    /\ \A j \in M : rs[j].confidence <= rs[i].confidence
    /\ \A j \in M : rs[j].confidence = rs[i].confidence => i <= j

ReturnsRule(result, rule) ==
  /\ result.category = rule.category
  /\ result.confidence = rule.confidence
  /\ result.method = RuleMethod(rule.rule_type)

\* C1 as stated: _apply_rules returns the category and confidence of the
\* earliest rule among the matching rules of highest confidence, and
\* ("Unknown", 0.0, "no_match") when no rule matches.
C1_AsStated ==
  last.op = "apply" =>
    LET rs == last.rules_before
        M == MatchingRules(rs, last.input.chars)
    IN IF M = {} THEN last.result = NoMatch
       ELSE ReturnsRule(last.result, rs[FirstOfHighest(rs, M)])

\* C1, amended: _apply_rules returns the category, confidence and
\* "rule_<type>" of the earliest rule among the matching rules of highest
\* confidence, where only matching rules of confidence above 0 count; when
\* no rule of confidence above 0 matches it returns
\* ("Unknown", 0.0, "no_match").
C1_HighestPositiveMatch ==
  last.op = "apply" =>
    LET rs == last.rules_before
        M == {i \in MatchingRules(rs, last.input.chars) : rs[i].confidence > 0}
    IN IF M = {} THEN last.result = NoMatch
       ELSE ReturnsRule(last.result, rs[FirstOfHighest(rs, M)])

\* C1 witness: two matching rules of different categories share the highest
\* confidence behind a matching rule of lower confidence, and the earlier of
\* the two is returned.
C1_Witness ==
  /\ last.op = "apply"
  /\ LET rs == last.rules_before
         M == MatchingRules(rs, last.input.chars)
     IN \E i, j, k \in M :
          /\ k < i /\ i < j
          /\ 0 < rs[k].confidence /\ rs[k].confidence < rs[i].confidence
          /\ rs[i].confidence = rs[j].confidence
          /\ rs[i].category # rs[j].category
          /\ \A n \in M : rs[n].confidence <= rs[i].confidence
          /\ \A n \in M : n < i => rs[n].confidence < rs[i].confidence
          /\ ReturnsRule(last.result, rs[i])

-----------------------------------------------------------------------------
(* Engine: _clean_merchant_name, _extract_keywords, learn, the remote adapter *)

CorporateForms ==
  << <<"u682a", "u5f0f", "u4f1a", "u793e">>,
     <<"u6709", "u9650", "u4f1a", "u793e">>,
     <<"u5408", "u540c", "u4f1a", "u793e">> >>

RECURSIVE LStrip(_)
LStrip(s) == IF s # <<>> /\ Head(s) \in WhiteSpace THEN LStrip(Tail(s)) ELSE s

RECURSIVE RStrip(_)
RStrip(s) ==
  IF s # <<>> /\ s[Len(s)] \in WhiteSpace THEN RStrip(SubSeq(s, 1, Len(s) - 1)) ELSE s

\* str.strip()
Strip(s) == RStrip(LStrip(s))

\* re.sub(r'\s+', ' ', s)
RECURSIVE CollapseWhiteSpace(_)
CollapseWhiteSpace(s) ==
  IF s = <<>> THEN <<>>
  ELSE IF Head(s) \in WhiteSpace THEN <<" ">> \o CollapseWhiteSpace(LStrip(s))
  ELSE <<Head(s)>> \o CollapseWhiteSpace(Tail(s))

_clean_merchant_name(merchant) ==
  LET no_prefix ==
        IF \E i \in DOMAIN CorporateForms : StartsWith(merchant, CorporateForms[i])
          THEN LET i == CHOOSE i \in DOMAIN CorporateForms :
                          StartsWith(merchant, CorporateForms[i])
               IN SubSeq(merchant, Len(CorporateForms[i]) + 1, Len(merchant))
          ELSE merchant
      no_suffix ==
        IF \E i \in DOMAIN CorporateForms : EndsWith(no_prefix, CorporateForms[i])
          THEN LET i == CHOOSE i \in DOMAIN CorporateForms :
                          EndsWith(no_prefix, CorporateForms[i])
               IN SubSeq(no_prefix, 1, Len(no_prefix) - Len(CorporateForms[i]))
          ELSE no_prefix
      no_special == SelectSeq(no_suffix, LAMBDA c : c \notin {"u30fb", "uff0a", "u203b"})
  IN Strip(CollapseWhiteSpace(no_special))

common_words ==
  {<<"a", "p", "p">>, <<"c", "o", "m">>, <<"c", "o">>, <<"l", "t", "d">>,
   <<"i", "n", "c">>, <<"c", "o", "r", "p">>, <<"t", "h", "e">>,
   <<"a", "n", "d">>, <<"o", "r">>}

\* The character class of the re.split of _extract_keywords.
Delimiters ==
  {"u30fb", "-", "_", "(", ")", "uff08", "uff09", "*", "uff0a"} \cup WhiteSpace

RECURSIVE SkipDelimiters(_)
SkipDelimiters(s) ==
  IF s # <<>> /\ Head(s) \in Delimiters THEN SkipDelimiters(Tail(s)) ELSE s

\* re.split(r'[...]+', s), word being the word read so far.
RECURSIVE Split(_, _)
Split(s, word) ==
  IF s = <<>> THEN <<word>>
  ELSE IF Head(s) \in Delimiters THEN <<word>> \o Split(SkipDelimiters(s), <<>>)
  ELSE Split(Tail(s), Append(word, Head(s)))

MinKeywordLen == 3

\* A mutant of _extract_keywords: the stopwords are kept.
KeepsCommonWords(merchant) ==
  LET words == Split(merchant, <<>>)
      stripped == [i \in DOMAIN words |-> Strip(words[i])]
  IN SelectSeq(stripped, LAMBDA word : Len(word) >= MinKeywordLen)

_extract_keywords(merchant) ==
  LET words == Split(merchant, <<>>)
      stripped == [i \in DOMAIN words |-> Strip(words[i])]
  IN SelectSeq(stripped,
               LAMBDA word : Len(word) >= MinKeywordLen /\ Lower(word) \notin common_words)

\* A mutant of Generalizes: only "Unknown" is kept out of learning.
GeneralizesOther(category) == category # "Unknown"

\* `category != "Unknown" and category != "Other"`
Generalizes(category) == category # "Unknown" /\ category # "Other"

\* A mutant of AlreadyExists: the check for an existing rule is dropped.
NeverExists(rs, new_rule) == FALSE

\* `any(r.pattern == new_rule.pattern and r.category == new_rule.category ...)`
AlreadyExists(rs, new_rule) ==
  \E i \in DOMAIN rs :
     rs[i].pattern = new_rule.pattern /\ rs[i].category = new_rule.category

\* A mutant of LearnKeywords: the rule of the first keyword is put at the
\* head of the list.
LearnAtHead(rs, keywords, category, source) ==
  IF keywords = <<>> THEN rs
  ELSE <<CategoryRule(Lower(Head(keywords)), category, LearnedConfidence,
                      "contains", source)>> \o rs

\* The keyword loop of _learn_from_categorization.
RECURSIVE LearnKeywords(_, _, _, _)
LearnKeywords(rs, keywords, category, source) ==
  IF keywords = <<>> THEN rs
  ELSE LET new_rule == CategoryRule(Lower(Head(keywords)), category,
                                    LearnedConfidence, "contains", source)
           appended == IF Len(Head(keywords)) >= MinKeywordLen
                          /\ ~AlreadyExists(rs, new_rule)
                         THEN Append(rs, new_rule) ELSE rs
       IN LearnKeywords(appended, Tail(keywords), category, source)

\* _learn_from_categorization: the rule list it leaves and the learning file
\* after _save_learning_data.
_learn_from_categorization(rs, ld, merchant, category, source) ==
  [rules |-> IF Generalizes(category)
               THEN LearnKeywords(rs, _extract_keywords(merchant), category, source)
               ELSE rs,
   learning_data |-> Append(ld, [merchant |-> merchant, category |-> category,
                                 source |-> source])]

\* The record of one learn call in `last`.
LearnCall(rs, merchant, category, source, learned) ==
  [merchant |-> merchant, category |-> category, source |-> source,
   before |-> rs, after |-> learned.rules]

LlmExactConfidence == 75

LlmFuzzyConfidence == 70

LlmFallbackConfidence == 60

\* What the remote classifier does with one request: it fails (transport
\* failure, timeout, a response with no choices or no content, all of which
\* raise inside the try block) or it answers with a text.
Failure(why) == [kind |-> why, content |-> <<>>]

Content(text) == [kind |-> "content", content |-> text]

\* _categorize_with_llm given what the remote does.
_categorize_with_llm(response) ==
  IF response.kind # "content" THEN Triple("Unknown", 0, "llm_error")
  ELSE LET suggested_category == Strip(response.content)
           exact == {n \in DOMAIN categories :
                       CategoryChars(categories[n].name) = suggested_category}
           fuzzy == {n \in DOMAIN categories :
                       Contains(Lower(CategoryChars(categories[n].name)),
                                Lower(suggested_category))}
       IN IF exact # {}
            THEN Triple(categories[CHOOSE n \in exact : TRUE].name,
                        LlmExactConfidence, "llm")
          ELSE IF fuzzy # {}
            THEN Triple(categories[CHOOSE n \in fuzzy : \A k \in fuzzy : n <= k].name,
                        LlmFuzzyConfidence, "llm_fuzzy")
          ELSE Triple("Other", LlmFallbackConfidence, "llm_fallback")

\* `not merchant or isinstance(merchant, float)`
IsInvalidInput(merchant) == ~merchant.truthy \/ merchant.type = "float"

\* A mutant of IsHighConfidence: the threshold is 0.9 instead of 0.7.
IsVeryHighConfidence(confidence) == confidence > HighConfidence + 20

\* `best_match[1] > 0.7`
IsHighConfidence(confidence) == confidence > HighConfidence

\* A mutant of LlmWins: the remote result wins at equal confidence too.
LlmWinsOrEqual(llm_confidence, rule_confidence) == llm_confidence >= rule_confidence

\* `llm_result[1] > best_match[1]`
LlmWins(llm_confidence, rule_confidence) == llm_confidence > rule_confidence

Returned(result, rs, ld, best, llm_calls, llm_result, learn_calls) ==
  [outcome |-> "return", result |-> result, rules |-> rs, learning_data |-> ld,
   best |-> best, llm_calls |-> llm_calls, llm_result |-> llm_result,
   learn_calls |-> learn_calls]

\* categorize_merchant(merchant) on rule list rs and learning file ld, the
\* remote classifier answering `response` if it is called.  A value that is
\* neither empty nor a float nor a str makes re.sub of _clean_merchant_name
\* raise TypeError, which nothing catches.
categorize_merchant(rs, ld, has_client, merchant, response) ==
  IF IsInvalidInput(merchant)
    THEN Returned(Triple("Unknown", 0, "invalid_input"), rs, ld,
                  NoTriple, 0, NoTriple, <<>>)
  ELSE IF merchant.type # "str"
    THEN [Returned(NoTriple, rs, ld, NoTriple, 0, NoTriple, <<>>)
            EXCEPT !.outcome = "raise"]
  ELSE
    LET merchant_clean == _clean_merchant_name(merchant.chars)
        applied == _apply_rules(rs, merchant_clean)
        best_match == applied.best
        llm_result == _categorize_with_llm(response)
        learned == _learn_from_categorization(applied.rules, ld, merchant_clean,
                                              llm_result.category, "llm")
        fall_through == IF best_match.confidence > 0 THEN best_match ELSE NoMatch
    IN IF IsHighConfidence(best_match.confidence)
         THEN Returned(best_match, applied.rules, ld, best_match, 0, NoTriple, <<>>)
       ELSE IF has_client
         THEN IF LlmWins(llm_result.confidence, best_match.confidence)
                THEN Returned(llm_result, learned.rules, learned.learning_data,
                              best_match, 1, llm_result,
                              <<LearnCall(applied.rules, merchant_clean,
                                          llm_result.category, "llm", learned)>>)
                ELSE Returned(fall_through, applied.rules, ld, best_match, 1,
                              llm_result, <<>>)
       ELSE Returned(fall_through, applied.rules, ld, best_match, 0, NoTriple, <<>>)

\* Whether categorize_merchant(merchant) reaches the remote classifier.
ReachesRemote(rs, has_client, merchant) ==
  /\ has_client
  /\ ~IsInvalidInput(merchant)
  /\ merchant.type = "str"
  /\ ~IsHighConfidence(_apply_rules(rs, _clean_merchant_name(merchant.chars)).best.confidence)

-----------------------------------------------------------------------------
(* Unknown-merchant store and _save_categorization_decision *)

\* One entry of unknown_categories.json; date_added and date_reviewed say
\* whether the entry carries the field, review_source is "none" when it
\* does not.
UnknownRecord(merchant, suggested_category, human_reviewed, date_added, date_reviewed, review_source) ==
  [merchant |-> merchant, suggested_category |-> suggested_category,
   human_reviewed |-> human_reviewed, date_added |-> date_added,
   date_reviewed |-> date_reviewed, review_source |-> review_source]

\* The entry save_unknown_categories writes for a new merchant.
NewUnknown(merchant) == UnknownRecord(merchant, "Unknown", FALSE, TRUE, FALSE, "none")

HasRecord(store, merchant) == \E i \in DOMAIN store : store[i].merchant = merchant

\* A mutant of Upsert: the record is added behind the entries there are.
AppendRecord(store, record) == Append(store, record)

\* data[merchant] = record on the ordered mapping.
Upsert(store, record) ==
  IF HasRecord(store, record.merchant)
    THEN [i \in DOMAIN store |->
            IF store[i].merchant = record.merchant THEN record ELSE store[i]]
    ELSE Append(store, record)

\* _save_categorization_decision(merchant, category, source): the entry is
\* replaced as a whole and written, learn runs on the merchant as given, and
\* the decision is appended to the session.
_save_categorization_decision(store, rs, ld, sess, merchant, category, source) ==
  LET learned == _learn_from_categorization(rs, ld, merchant, category, source)
  IN [unknown |-> Upsert(store, UnknownRecord(merchant, category, TRUE, FALSE,
                                               TRUE, source)),
      rules |-> learned.rules,
      learning_data |-> learned.learning_data,
      session |-> [sess EXCEPT !.decisions_made =
                     Append(@, [merchant |-> merchant, category |-> category,
                                source |-> source])],
      learn_call |-> LearnCall(rs, merchant, category, source, learned)]

\* A mutant of InResults: no merchant is taken as processed.
NeverInResults(results, merchant) == FALSE

\* merchant in results
InResults(results, merchant) == \E k \in DOMAIN results : results[k][1] = merchant

CategorizeEvent(merchant, llm_calls) ==
  [event |-> "categorize_merchant", merchant |-> merchant, llm_calls |-> llm_calls]

SaveEvent == [event |-> "_save_rules", merchant |-> NoInput, llm_calls |-> 0]

\* The loop of categorize_batch from merchant i on; b holds the results, the
\* calls made so far in their order, the rules and the learning file, and
\* whether categorize_merchant raised.
RECURSIVE BatchItems(_, _, _, _, _)
BatchItems(merchants, i, has_client, response, b) ==
  IF i > Len(merchants) \/ b.raised THEN b
  ELSE IF InResults(b.results, merchants[i])
    THEN BatchItems(merchants, i + 1, has_client, response, b)
  ELSE LET Rest(r) ==
             BatchItems(merchants, i + 1, has_client, response,
               [results |-> IF r.outcome = "raise" THEN b.results
                            ELSE Append(b.results, <<merchants[i], r.result>>),
                events |-> Append(b.events,
                                  CategorizeEvent(merchants[i], r.llm_calls)),
                rules |-> r.rules, learning_data |-> r.learning_data,
                raised |-> r.outcome = "raise"])
       IN Rest(categorize_merchant(b.rules, b.learning_data, has_client,
                                   merchants[i], response))

\* categorize_batch(merchants): the loop, then _save_rules(self.rules).
categorize_batch(rs, ld, has_client, merchants, response) ==
  LET Saved(b) == IF b.raised THEN b
                  ELSE [b EXCEPT !.events = Append(@, SaveEvent)]
  IN Saved(BatchItems(merchants, 1, has_client, response,
                      [results |-> <<>>, events |-> <<>>, rules |-> rs,
                       learning_data |-> ld, raised |-> FALSE]))

-----------------------------------------------------------------------------
(* The engine and the decisions fed back to it *)

MaxCalls == 2

Amazon == <<"A", "M", "A", "Z", "O", "N", ".", "C", "O", ".", "J", "P">>

AmazonJP == <<"A", "m", "a", "z", "o", "n", " ", "J", "P">>

KobeBeef == <<"K", "o", "b", "e", " ", "B", "e", "e", "f", " ", "K", "o", "b", "e">>

TeaInn == <<"u682a", "u5f0f", "u4f1a", "u793e", "T", "e", "a", " ", "I", "n", "n">>

TheKobeApp == <<"T", "h", "e", " ", "K", "O", "B", "E", "-", "a", "p", "p", "uff08", "k", "o", "b", "e", "uff09">>

\* A rule file left by an earlier run: a learned rule, a rule at the
\* threshold and a rule above it.
LoadedRules ==
  << CategoryRule(<<"k", "o", "b", "e">>, "Shopping", LearnedConfidence, "contains", "llm"),
     CategoryRule(<<"b", "e", "e", "f">>, "Food & Dining", HighConfidence, "contains", "human"),
     CategoryRule(<<"t", "e", "a">>, "Food & Dining", DefaultConfidence, "contains", "human") >>

\* Values passed to categorize_merchant: strings, None, NaN, an integer and
\* a list.
Inputs ==
  {Str(Amazon), Str(KobeBeef), Str(TeaInn), Str(<<>>),
   [type |-> "NoneType", truthy |-> FALSE, chars |-> <<>>],
   [type |-> "float", truthy |-> TRUE, chars |-> <<>>],
   [type |-> "int", truthy |-> TRUE, chars |-> <<>>],
   [type |-> "list", truthy |-> TRUE, chars |-> <<>>]}

\* What the remote classifier may do: fail, or answer a category name, a
\* category name in other words, "Other", or nothing.
Responses ==
  {Failure("timeout"),
   Content(<<"S", "h", "o", "p", "p", "i", "n", "g">>),
   Content(<<" ", "s", "h", "o", "p", "p", "i", "n", "g">>),
   Content(<<"O", "t", "h", "e", "r">>),
   Content(<<>>)}

MaxBatchLen == 2

BatchMerchants == {Str(KobeBeef), Str(Amazon), Str(<<>>)}

BatchResponses == {Failure("timeout"), Content(<<"S", "h", "o", "p", "p", "i", "n", "g">>)}

\* Batches handed to the engine next to single calls.
Batches == {<<Str(KobeBeef), Str(Amazon), Str(KobeBeef)>>, <<Str(TeaInn)>>}

EngineCache == << <<KobeBeef, "Food Expenses">> >>

Init ==
  /\ rules \in {_initialize_default_rules, LoadedRules}
  /\ client \in BOOLEAN
  /\ cache = EngineCache
  /\ unknown = <<NewUnknown(KobeBeef)>>
  /\ stats = <<>>
  /\ learning_data = <<>>
  /\ session = NewSession
  /\ review = Idle
  /\ presented = <<>>
  /\ last = NoOp
  /\ calls = 0
  /\ rules_file = _save_rules(rules)
  /\ saving = NotSaving
  /\ cache_file = AbsentCache
  /\ task_queue = <<>>
  /\ completed_tasks = <<>>
  /\ workflow = NoWorkflow
  /\ unknown_parses = TRUE

\* engine.categorize_merchant(merchant)
Categorize(merchant) ==
  /\ calls < MaxCalls
  /\ \E response \in IF ReachesRemote(rules, client, merchant)
                       THEN Responses ELSE {NoResponse} :
       \E r \in {categorize_merchant(rules, learning_data, client, merchant, response)} :
          /\ rules' = r.rules
          /\ learning_data' = r.learning_data
          /\ last' = [op |-> "categorize", input |-> merchant,
                      outcome |-> r.outcome, result |-> r.result, best |-> r.best,
                      response |-> response, llm_calls |-> r.llm_calls,
                      llm_result |-> r.llm_result, learn_calls |-> r.learn_calls,
                      rules_before |-> rules]
  /\ calls' = calls + 1
  /\ UNCHANGED <<rules_file, saving>>
  /\ UNCHANGED <<client, cache, cache_file, task_queue, completed_tasks, workflow, unknown, unknown_parses, stats, session, review, presented>>

\* engine._learn_from_categorization(merchant, category, source)
Learn(merchant, category, source) ==
  /\ calls < MaxCalls
  /\ \E learned \in {_learn_from_categorization(rules, learning_data, merchant,
                                                 category, source)} :
        /\ rules' = learned.rules
        /\ learning_data' = learned.learning_data
        /\ last' = [NoOp EXCEPT !.op = "learn", !.input = Str(merchant),
                                !.outcome = "return",
                                !.learn_calls = <<LearnCall(rules, merchant, category,
                                                            source, learned)>>,
                                !.rules_before = rules]
  /\ calls' = calls + 1
  /\ UNCHANGED <<rules_file, saving>>
  /\ UNCHANGED <<client, cache, cache_file, task_queue, completed_tasks, workflow, unknown, unknown_parses, stats, session, review, presented>>

\* workflow._save_categorization_decision(merchant, category, source)
RecordDecision(merchant, category, source) ==
  /\ calls < MaxCalls
  /\ \E d \in {_save_categorization_decision(unknown, rules, learning_data, session,
                                              merchant, category, source)} :
        /\ unknown' = d.unknown
        /\ rules' = d.rules
        /\ learning_data' = d.learning_data
        /\ session' = d.session
        /\ last' = [NoOp EXCEPT !.op = "record_decision", !.input = Str(merchant),
                                !.outcome = "return",
                                !.learn_calls = <<d.learn_call>>,
                                !.rules_before = rules]
  /\ calls' = calls + 1
  /\ UNCHANGED <<rules_file, saving>>
  /\ UNCHANGED <<client, cache, cache_file, task_queue, completed_tasks, workflow, stats, review, presented>>
  /\ UNCHANGED unknown_parses

\* engine.categorize_batch(merchants), the remote classifier answering
\* `response` whenever it is called; _save_rules writes the file at its end.
Batch(merchants, response) ==
  /\ calls < MaxCalls
  /\ \E b \in {categorize_batch(rules, learning_data, client, merchants, response)} :
        /\ rules' = b.rules
        /\ learning_data' = b.learning_data
        /\ rules_file' = IF b.raised THEN rules_file ELSE _save_rules(b.rules)
        /\ last' = [NoOp EXCEPT !.op = "categorize_batch",
                                !.outcome = IF b.raised THEN "raise" ELSE "return",
                                !.response = response,
                                !.rules_before = rules]
  /\ calls' = calls + 1
  /\ UNCHANGED <<client, cache, cache_file, task_queue, completed_tasks, workflow, unknown, unknown_parses, stats, session, review, presented, saving>>

Next ==
  \/ \E merchant \in Inputs : Categorize(merchant)
  \/ \E merchants \in Batches :
       Batch(merchants, Content(<<"S", "h", "o", "p", "p", "i", "n", "g">>))
  \/ \E merchant \in {KobeBeef, AmazonJP, TheKobeApp},
        category \in {"Shopping", "Other", "Unknown"} :
       Learn(merchant, category, "human")
  \/ \E merchant \in {KobeBeef, TeaInn}, category \in {"Food & Dining", "Other"},
        source \in {"batch_human", "individual_human"} :
       RecordDecision(merchant, category, source)

Spec == Init /\ [][Next]_vars

-----------------------------------------------------------------------------
(* Claims about categorize_merchant and learn, under Spec *)

ValidMerchant(input) == input.type = "str" /\ input.truthy

\* What the rule store answers for the merchant of operation op.
RuleResult(op) ==
  _apply_rules(op.rules_before, _clean_merchant_name(op.input.chars)).best

\* Two rule lists that differ in usage counts at most.
SameRulesButUsage(a, b) ==
  /\ Len(a) = Len(b)
  /\ \A i \in DOMAIN a : [a[i] EXCEPT !.usage_count = 0] = [b[i] EXCEPT !.usage_count = 0]

\* C2: when the best rule match has confidence above 0.7, categorize returns
\* exactly that rule result, calls no remote classifier and learns no rule,
\* with or without a remote classifier; with the seed rules "AMAZON.CO.JP"
\* gives ("Shopping", 0.95, "rule_contains").
C2_HighConfidenceRuleWins ==
  (/\ last.op = "categorize"
   /\ ValidMerchant(last.input)
   /\ RuleResult(last).confidence > HighConfidence)
  => /\ last.outcome = "return"
     /\ last.result = RuleResult(last)
     /\ last.llm_calls = 0
     /\ last.response = NoResponse
     /\ last.learn_calls = <<>>
     /\ SameRulesButUsage(rules, last.rules_before)
     /\ (/\ SameRulesButUsage(last.rules_before, _initialize_default_rules)
         /\ last.input.chars = Amazon)
        => last.result = Triple("Shopping", 95, "rule_contains")

\* C2 witness: with a remote classifier configured and the seed rules,
\* "AMAZON.CO.JP" has been categorized.
C2_Witness ==
  /\ last.op = "categorize"
  /\ client
  /\ last.input = Str(Amazon)
  /\ SameRulesButUsage(last.rules_before, _initialize_default_rules)
  /\ last.result = Triple("Shopping", 95, "rule_contains")

\* C3: for a valid merchant whose best rule confidence is at most 0.7, a
\* configured remote classifier is called exactly once; when its confidence
\* is strictly above the rule confidence the engine learns (category, "llm")
\* from the cleaned name and returns the remote result; in every other case
\* it learns nothing and returns the rule match if its confidence is above
\* 0, else ("Unknown", 0.0, "no_match").
C3_LowConfidenceAsksRemote ==
  (/\ last.op = "categorize"
   /\ ValidMerchant(last.input)
   /\ RuleResult(last).confidence <= HighConfidence)
  => LET best == RuleResult(last)
         llm == _categorize_with_llm(last.response)
     IN /\ last.outcome = "return"
        /\ last.llm_calls = (IF client THEN 1 ELSE 0)
        /\ client <=> last.response # NoResponse
        /\ IF client /\ llm.confidence > best.confidence
             THEN /\ Len(last.learn_calls) = 1
                  /\ last.learn_calls[1].merchant = _clean_merchant_name(last.input.chars)
                  /\ last.learn_calls[1].category = llm.category
                  /\ last.learn_calls[1].source = "llm"
                  /\ rules = last.learn_calls[1].after
                  /\ last.result = llm
             ELSE /\ last.learn_calls = <<>>
                  /\ SameRulesButUsage(rules, last.rules_before)
                  /\ last.result = (IF best.confidence > 0 THEN best ELSE NoMatch)

\* C3 witness: a rule matched below the threshold, the remote classifier
\* answered with more confidence, and a rule was learned from its answer.
C3_Witness ==
  /\ last.op = "categorize"
  /\ client
  /\ last.best.confidence > 0
  /\ last.best.confidence <= HighConfidence
  /\ last.llm_result.confidence > last.best.confidence
  /\ Len(last.learn_calls) = 1
  /\ Len(last.learn_calls[1].after) > Len(last.learn_calls[1].before)
  /\ last.result = last.llm_result

\* C4 as stated: for every input that is empty or not a string, categorize
\* returns ("Unknown", 0.0, "invalid_input") without consulting the rule
\* store or the remote classifier and without raising.
C4_AsStated ==
  (last.op = "categorize" /\ ~ValidMerchant(last.input))
  => /\ last.outcome = "return"
     /\ last.result = Triple("Unknown", 0, "invalid_input")
     /\ last.llm_calls = 0
     /\ rules = last.rules_before

\* C5 as stated: for every merchant input and every behaviour of the remote
\* classifier, categorize returns a triple and lets no fault escape; a remote
\* failure becomes ("Unknown", 0.0, "llm_error") and the engine falls through
\* to the rule result or no_match.
C5_AsStated ==
  last.op = "categorize"
  => /\ last.outcome = "return"
     /\ last.result # NoTriple
     /\ last.response.kind \notin {"content", "not_called"}
        => /\ last.llm_result = Triple("Unknown", 0, "llm_error")
           /\ last.result = (IF last.best.confidence > 0 THEN last.best ELSE NoMatch)

\* C6: no rule appended by a learn call has the (pattern, category) of a rule
\* that was in the list when it was appended, whether that rule was loaded,
\* seeded or appended earlier in the same call.
C6_LearnAddsNoDuplicate ==
  \A n \in DOMAIN last.learn_calls :
    LET lc == last.learn_calls[n] IN
      /\ Len(lc.before) <= Len(lc.after)
      /\ SubSeq(lc.after, 1, Len(lc.before)) = lc.before
      /\ \A j \in (Len(lc.before) + 1)..Len(lc.after) : \A i \in 1..(j - 1) :
            ~(/\ lc.after[i].pattern = lc.after[j].pattern
              /\ lc.after[i].category = lc.after[j].category)

\* C6 witness: a learn call appended a rule for one keyword and appended
\* none for another keyword, whose pair was already there.
C6_Witness ==
  \E n \in DOMAIN last.learn_calls :
    LET lc == last.learn_calls[n] IN
      /\ Len(lc.after) > Len(lc.before)
      /\ Len(lc.after) - Len(lc.before) < Len(_extract_keywords(lc.merchant))

\* C7: a learn call with category "Unknown" or "Other" leaves the rule list
\* as it was, whoever made the call.
C7_NoLearningFromUnknownOrOther ==
  \A n \in DOMAIN last.learn_calls :
    LET lc == last.learn_calls[n] IN
      /\ lc.category \in {"Unknown", "Other"} => lc.after = lc.before
      /\ n = Len(last.learn_calls) => rules = lc.after

\* C7 witness: the remote classifier answered "Other" for a merchant with
\* keywords, and the engine called learn with it.
C7_Witness ==
  /\ last.op = "categorize"
  /\ Len(last.learn_calls) = 1
  /\ last.learn_calls[1].category = "Other"
  /\ _extract_keywords(last.learn_calls[1].merchant) # <<>>

InCache(c, key) == \E i \in DOMAIN c : c[i][1] = key

CacheGet(c, key) == c[CHOOSE i \in DOMAIN c : c[i][1] = key][2]

\* C8 as stated (engine): for a merchant whose raw description is a key of
\* the cache, categorize returns the cached category and calls no remote
\* classifier.
C8_AsStated ==
  (/\ last.op = "categorize"
   /\ last.input.type = "str"
   /\ InCache(cache, last.input.chars))
  => /\ last.result.category = CacheGet(cache, last.input.chars)
     /\ last.llm_calls = 0

-----------------------------------------------------------------------------
(* Cache and find_fuzzy_match (util.py and categorize.py hold the same code) *)

Max(a, b) == IF a >= b THEN a ELSE b

\* One row of the longest-common-subsequence table: acc holds the entries of
\* columns 1..j-1 of the row of character ch, prev the row above.
RECURSIVE LcsRow(_, _, _, _, _)
LcsRow(ch, b, prev, j, acc) ==
  IF j > Len(b) THEN acc
  ELSE LET left == IF j = 1 THEN 0 ELSE acc[j - 1]
           diag == IF j = 1 THEN 0 ELSE prev[j - 1]
           v == IF ch = b[j] THEN diag + 1 ELSE Max(left, prev[j])
       IN LcsRow(ch, b, prev, j + 1, Append(acc, v))

RECURSIVE LcsFrom(_, _, _, _)
LcsFrom(a, b, i, prev) ==
  IF i > Len(a) THEN prev
  ELSE LcsFrom(a, b, i + 1, LcsRow(a[i], b, prev, 1, <<>>))

\* The number of characters the two strings have in common, in order.
Lcs(a, b) ==
  IF Len(b) = 0 THEN 0 ELSE LcsFrom(a, b, 1, [j \in 1..Len(b) |-> 0])[Len(b)]

\* int(round(100 * 2 * m / t)), Python rounding a half to the even integer.
IntRound(num, den) ==
  LET q == num \div den
      r == num % den
  IN IF 2 * r > den \/ (2 * r = den /\ q % 2 = 1) THEN q + 1 ELSE q

\* fuzz.ratio(s1, s2): 100 for equal strings, 0 when one is empty, else the
\* similarity 2*M/T on the 0..100 scale, M the matched characters and T the
\* total length.  M is the longest common subsequence (the edit-distance
\* backend); the strings of Items and CacheKeys score the same under the
\* difflib backend.
ratio(s1, s2) ==
  IF s1 = s2 THEN 100
  ELSE IF Len(s1) = 0 \/ Len(s2) = 0 THEN 0
  ELSE IntRound(200 * Lcs(s1, s2), Len(s1) + Len(s2))

\* The default threshold of find_fuzzy_match.
DefaultThreshold == 85

NoMatchFound == [found |-> FALSE, key |-> <<>>, category |-> "", score |-> 0]

Match(key, category, score) ==
  [found |-> TRUE, key |-> key, category |-> category, score |-> score]

\* A mutant of BeatsBestScore: any entry at or above the threshold replaces
\* the match held so far.
ReachesThreshold(score, best_score, threshold) == score >= threshold

\* score > best_score and score >= threshold
BeatsBestScore(score, best_score, threshold) ==
  score > best_score /\ score >= threshold

\* The loop of find_fuzzy_match from entry i of the cache on; best_score
\* starts at 0 and best_match at None.
RECURSIVE FuzzyFrom(_, _, _, _, _, _)
FuzzyFrom(item_name, c, i, threshold, best_score, best_match) ==
  IF i > Len(c) THEN best_match
  ELSE LET score == ratio(item_name, c[i][1])
       IN IF BeatsBestScore(score, best_score, threshold)
          THEN FuzzyFrom(item_name, c, i + 1, threshold, score,
                         Match(c[i][1], c[i][2], score))
          ELSE FuzzyFrom(item_name, c, i + 1, threshold, best_score, best_match)

find_fuzzy_match(item_name, c, threshold) ==
  FuzzyFrom(item_name, c, 1, threshold, 0, NoMatchFound)

\* cache[item] = category: a key the dict holds keeps its place, a new key
\* goes to the end.
CachePut(c, item, category) ==
  IF InCache(c, item)
  THEN [i \in DOMAIN c |-> IF c[i][1] = item THEN <<item, category>> ELSE c[i]]
  ELSE Append(c, <<item, category>>)

-----------------------------------------------------------------------------
(* Specification of the cache: entries are stored and looked up *)

MaxCacheLen == 3

Probe == <<"a", "b", "c", "d", "e", "f">>

ProbeG == <<"a", "b", "c", "d", "e", "f", "g">>

Items == {ProbeG, Probe, <<>>}

CacheKeys ==
  {<<"a", "b", "c", "d", "e", "f", "x">>, <<"a", "b", "c", "d", "e", "f", "y">>,
   <<"a", "b", "c", "d", "x", "y", "z">>, <<>>}

CacheCategories == {"Shopping", "Food & Dining"}

Thresholds == {DefaultThreshold, 50, 0}

InitFuzzy ==
  /\ rules = <<>>
  /\ client = FALSE
  /\ cache = <<>>
  /\ unknown = <<>>
  /\ stats = <<>>
  /\ learning_data = <<>>
  /\ session = NewSession
  /\ review = Idle
  /\ presented = <<>>
  /\ last = [op |-> "none", item |-> <<>>, threshold |-> 0, result |-> NoMatchFound]
  /\ calls = 0
  /\ rules_file = AbsentFile
  /\ saving = NotSaving
  /\ cache_file = AbsentCache
  /\ task_queue = <<>>
  /\ completed_tasks = <<>>
  /\ workflow = NoWorkflow
  /\ unknown_parses = TRUE

\* categorize.py, the row loop: the confirmed category of an item is stored.
CacheItem(item, category) ==
  /\ InCache(cache, item) \/ Len(cache) < MaxCacheLen
  /\ cache' = CachePut(cache, item, category)
  /\ last' = [op |-> "cache_item", item |-> item, threshold |-> 0,
              result |-> NoMatchFound]
  /\ UNCHANGED <<rules_file, saving, cache_file, task_queue, completed_tasks, workflow>>
  /\ UNCHANGED <<rules, client, unknown, unknown_parses, stats, learning_data, session, review,
                 presented, calls>>

\* find_fuzzy_match(item_name, cache, threshold)
FuzzyLookup(item_name, threshold) ==
  /\ \E r \in {find_fuzzy_match(item_name, cache, threshold)} :
       last' = [op |-> "find_fuzzy_match", item |-> item_name,
                threshold |-> threshold, result |-> r]
  /\ UNCHANGED <<rules_file, saving>>
  /\ UNCHANGED <<rules, client, cache, cache_file, task_queue, completed_tasks, workflow, unknown, unknown_parses, stats, learning_data, session,
                 review, presented, calls>>

NextFuzzy ==
  \/ \E item \in CacheKeys, category \in CacheCategories : CacheItem(item, category)
  \/ \E item_name \in Items, threshold \in Thresholds : FuzzyLookup(item_name, threshold)

SpecFuzzy == InitFuzzy /\ [][NextFuzzy]_vars

-----------------------------------------------------------------------------
(* Claims about find_fuzzy_match, under SpecFuzzy *)

\* The score of entry i of the cache against the item looked up last.
ScoreOf(i) == ratio(last.item, cache[i][1])

\* The entries a lookup may return when the scores in Qualifying count.
FirstOfMaximum(Qualifying) ==
  IF Qualifying = {} THEN NoMatchFound
  ELSE LET i == CHOOSE k \in Qualifying :
                  \A j \in Qualifying :
                     ScoreOf(j) < ScoreOf(k) \/ (ScoreOf(j) = ScoreOf(k) /\ k <= j)
       IN Match(cache[i][1], cache[i][2], ScoreOf(i))

-----------------------------------------------------------------------------
(* Review: ReviewInterface.start_review and
   EnhancedReviewWorkflow.start_enhanced_review *)

HasStats(st, merchant) == \E i \in DOMAIN st : st[i].merchant = merchant

\* merchant_stats.loc[merchant, 'sum'], 0.0 for a merchant without transactions
total_amount(st, merchant) ==
  IF HasStats(st, merchant)
    THEN st[CHOOSE i \in DOMAIN st : st[i].merchant = merchant].sum
    ELSE 0

\* merchant_stats.loc[merchant, 'count'], 0 for a merchant without transactions
transaction_count(st, merchant) ==
  IF HasStats(st, merchant)
    THEN st[CHOOSE i \in DOMAIN st : st[i].merchant = merchant].count
    ELSE 0

\* One step of a stable descending sort: the pair <<key, item>> goes behind
\* the pairs whose key is at least its own.
InsertDescending(sorted, pair) ==
  LET n == Cardinality({i \in DOMAIN sorted : sorted[i][1] >= pair[1]})
  IN SubSeq(sorted, 1, n) \o <<pair>> \o SubSeq(sorted, n + 1, Len(sorted))

RECURSIVE SortedFrom(_, _, _)
SortedFrom(pairs, i, sorted) ==
  IF i > Len(pairs) THEN sorted
  ELSE SortedFrom(pairs, i + 1, InsertDescending(sorted, pairs[i]))

\* sort(key=..., reverse=True) and sorted(..., reverse=True) on pairs
\* <<key, item>>: descending, items of equal key in their original order.
SortDescending(pairs) ==
  LET sorted == SortedFrom(pairs, 1, <<>>)
  IN [i \in DOMAIN sorted |-> sorted[i][2]]

\* The unreviewed entries of the file with their amounts, sorted by
\* total_amount, highest first (start_review).
start_review(store, st) ==
  LET ByAmount(unreviewed) ==
        SortDescending([i \in DOMAIN unreviewed |->
          <<total_amount(st, unreviewed[i].merchant),
            [merchant |-> unreviewed[i].merchant,
             total_amount |-> total_amount(st, unreviewed[i].merchant),
             transaction_count |-> transaction_count(st, unreviewed[i].merchant)]>>])
  IN ByAmount(SelectSeq(store, LAMBDA info : ~info.human_reviewed))

\* data[merchant]["human_reviewed"] = True, with the date of the review
MarkReviewed(store, merchant) ==
  [i \in DOMAIN store |->
     IF store[i].merchant = merchant
       THEN [store[i] EXCEPT !.human_reviewed = TRUE, !.date_reviewed = TRUE]
       ELSE store[i]]

\* The loop of _get_merchants_for_review from entry i of the file on: the
\* engine categorizes every unreviewed merchant, responses[i] being the
\* answer of the remote classifier for entry i.
RECURSIVE MerchantsFrom(_, _, _, _, _, _, _, _)
MerchantsFrom(store, i, st, rs, ld, has_client, responses, acc) ==
  IF i > Len(store) THEN [merchants |-> acc, rules |-> rs, learning_data |-> ld]
  ELSE IF store[i].human_reviewed
    THEN MerchantsFrom(store, i + 1, st, rs, ld, has_client, responses, acc)
  ELSE LET merchant_data(result) ==
             [merchant |-> store[i].merchant, category |-> result.category,
              confidence |-> result.confidence, method |-> result.method,
              total_amount |-> total_amount(st, store[i].merchant),
              transaction_count |-> transaction_count(st, store[i].merchant)]
           Rest(r) ==
             MerchantsFrom(store, i + 1, st, r.rules, r.learning_data, has_client,
                           responses, Append(acc, merchant_data(r.result)))
       IN Rest(categorize_merchant(rs, ld, has_client, Str(store[i].merchant),
                                   responses[i]))

_get_merchants_for_review(store, st, rs, ld, has_client, responses) ==
  LET Sorted(got) ==
        [got EXCEPT !.merchants =
           SortDescending([i \in DOMAIN got.merchants |->
                             <<got.merchants[i].total_amount, got.merchants[i]>>])]
  IN Sorted(MerchantsFrom(store, 1, st, rs, ld, has_client, responses, <<>>))

\* The characters re.sub(r'[0-9\-\*...]', '', merchant) removes.
PatternStripped ==
  {"0", "1", "2", "3", "4", "5", "6", "7", "8", "9", "-", "*", "u30fb", "uff0e"}

\* parts[0][:10]
MaxPatternLen == 10

Misc == <<"m", "i", "s", "c">>

\* The first part of pattern.split()
RECURSIVE FirstPart(_)
FirstPart(s) ==
  IF s = <<>> \/ Head(s) \in WhiteSpace THEN <<>>
  ELSE <<Head(s)>> \o FirstPart(Tail(s))

_extract_pattern(merchant) ==
  LET Truncated(first) ==
        SubSeq(first, 1, IF Len(first) < MaxPatternLen THEN Len(first)
                         ELSE MaxPatternLen)
      FirstOf(pattern) ==
        IF pattern # <<>> THEN Truncated(FirstPart(pattern)) ELSE Misc
  IN FirstOf(Strip(CollapseWhiteSpace(
               SelectSeq(merchant, LAMBDA c : c \notin PatternStripped))))

\* The grouping loop of _group_similar_merchants: a new pattern opens a group
\* behind the groups there are.
RECURSIVE GroupsFrom(_, _, _)
GroupsFrom(merchants, i, groups) ==
  IF i > Len(merchants) THEN groups
  ELSE LET Grouped(pattern) ==
             IF \E g \in DOMAIN groups : groups[g].pattern = pattern
               THEN [g \in DOMAIN groups |->
                       IF groups[g].pattern = pattern
                         THEN [groups[g] EXCEPT !.merchants = Append(@, merchants[i])]
                         ELSE groups[g]]
               ELSE Append(groups, [pattern |-> pattern,
                                    merchants |-> <<merchants[i]>>])
       IN GroupsFrom(merchants, i + 1,
                     Grouped(_extract_pattern(merchants[i].merchant)))

RECURSIVE SumAmounts(_)
SumAmounts(merchants) ==
  IF merchants = <<>> THEN 0
  ELSE Head(merchants).total_amount + SumAmounts(Tail(merchants))

\* A mutant of group_total_amount: the amount of the first member.
FirstAmount(group) == group.merchants[1].total_amount

group_total_amount(group) == SumAmounts(group.merchants)

\* The groups in the order of their total amounts, highest first.
_group_similar_merchants(merchants) ==
  LET ByTotal(groups) ==
        SortDescending([g \in DOMAIN groups |->
                          <<group_total_amount(groups[g]), groups[g]>>])
  IN ByTotal(GroupsFrom(merchants, 1, <<>>))

\* The loop of _batch_categorize_group over the merchants of a group; state
\* holds the file, the rules, the learning data and the session.
RECURSIVE BatchFrom(_, _, _, _)
BatchFrom(merchants, i, category, state) ==
  IF i > Len(merchants) THEN state
  ELSE LET Rest(d) ==
             BatchFrom(merchants, i + 1, category,
                       [unknown |-> d.unknown, rules |-> d.rules,
                        learning_data |-> d.learning_data, session |-> d.session])
       IN Rest(_save_categorization_decision(state.unknown, state.rules,
                                             state.learning_data, state.session,
                                             merchants[i].merchant, category,
                                             "batch_human"))

\* _learn_pattern(pattern, category, count)
_learn_pattern(sess, pattern, category, count) ==
  [sess EXCEPT !.patterns_learned =
     Append(@, [pattern |-> pattern, category |-> category, merchant_count |-> count])]

\* The names of the merchants of a group.
Names(merchants) == [i \in DOMAIN merchants |-> merchants[i].merchant]

-----------------------------------------------------------------------------
(* Specification of the review runs, no API key being configured *)

MaxRuns == 2

Alpha == <<"A", "L", "P", "H", "A">>

Beta1 == <<"B", "E", "T", "A", " ", "1">>

Beta2 == <<"B", "E", "T", "A", " ", "2">>

\* The merchants of unknown_categories.json, in the order of the file.
ReviewMerchants == <<Beta1, Alpha, Beta2>>

Amounts == {0, 60, 100}

ReviewCategories == {"Food & Dining", "Other"}

ReviewRules ==
  <<CategoryRule(<<"a", "l", "p", "h", "a">>, "Shopping", DefaultConfidence,
                 "contains", "system")>>

\* The sums and counts of the billing files, a merchant of amount 0 having
\* no transaction.
StatsOf(amount) ==
  LET all == [i \in DOMAIN ReviewMerchants |->
                [merchant |-> ReviewMerchants[i], sum |-> amount[i], count |-> 1]]
  IN SelectSeq(all, LAMBDA row : row.sum > 0)

Gamma == <<"G", "A", "M", "M", "A">>

\* The observation of a step: the operation, the reviewer's choice, the
\* merchant or pattern it was about, and the merchants the reviewer has
\* explicitly skipped so far.
NoStep == [op |-> "none", choice |-> "", subject |-> <<>>, skipped |-> {}]

Step(op, choice, subject, skipped) ==
  [op |-> op, choice |-> choice, subject |-> subject, skipped |-> skipped]

\* Range of a sequence.
Range(seq) == {seq[i] : i \in DOMAIN seq}

\* save_unknown_categories(unknown_merchants) from merchant i on: a merchant
\* the file does not hold gets a new entry.
RECURSIVE save_unknown_categories(_, _, _)
save_unknown_categories(store, unknown_merchants, i) ==
  IF i > Len(unknown_merchants) THEN store
  ELSE save_unknown_categories(
         IF HasRecord(store, unknown_merchants[i]) THEN store
         ELSE Append(store, NewUnknown(unknown_merchants[i])),
         unknown_merchants, i + 1)

\* load_human_categories(): merchant and suggested_category of the entries
\* that are human_reviewed (export_categories writes the same mapping).
load_human_categories(store) ==
  LET Pairs(reviewed) ==
        [i \in DOMAIN reviewed |->
           <<reviewed[i].merchant, reviewed[i].suggested_category>>]
  IN Pairs(SelectSeq(store, LAMBDA info : info.human_reviewed))

InitReview ==
  /\ rules = ReviewRules
  /\ client = FALSE
  /\ cache = <<>>
  /\ unknown = [i \in DOMAIN ReviewMerchants |-> NewUnknown(ReviewMerchants[i])]
  /\ stats \in {StatsOf(amount) : amount \in [DOMAIN ReviewMerchants -> Amounts]}
  /\ learning_data = <<>>
  /\ session = NewSession
  /\ review = Idle
  /\ presented = <<>>
  /\ last = NoStep
  /\ calls = 0
  /\ rules_file = _save_rules(rules)
  /\ saving = NotSaving
  /\ cache_file = AbsentCache
  /\ task_queue = <<>>
  /\ completed_tasks = <<>>
  /\ workflow = NoWorkflow
  /\ unknown_parses = TRUE

\* BillingAgent.process_monthly_billing, the part that changes the file:
\* save_unknown_categories(unknown_merchants)
AnalysisPass(unknown_merchants) ==
  /\ calls < MaxRuns
  /\ unknown' = save_unknown_categories(unknown, unknown_merchants, 1)
  /\ last' = Step("save_unknown_categories", "", <<>>, last.skipped)
  /\ calls' = calls + 1
  /\ UNCHANGED <<rules_file, saving>>
  /\ UNCHANGED <<rules, client, cache, cache_file, task_queue, completed_tasks, workflow, stats, learning_data, session, review,
                 presented>>
  /\ UNCHANGED unknown_parses

\* handle_tool_call("update_category", {merchant, category}); on a file that
\* is no JSON document its json.load raises and nothing is written.
UpdateCategory(merchant, category) ==
  /\ calls < MaxRuns
  /\ unknown_parses
  /\ unknown' = IF merchant = <<>> \/ category = "" THEN unknown
                ELSE Upsert(unknown, UnknownRecord(merchant, category, TRUE, FALSE,
                                                   TRUE, "none"))
  /\ last' = Step("update_category", category, merchant, last.skipped)
  /\ calls' = calls + 1
  /\ UNCHANGED <<rules_file, saving>>
  /\ UNCHANGED <<rules, client, cache, cache_file, task_queue, completed_tasks, workflow, stats, learning_data, session, review,
                 presented>>
  /\ UNCHANGED unknown_parses

\* ReviewInterface.start_review up to the first prompt; data is the file as
\* read here, which the run writes back after every merchant.
StartReview ==
  /\ review.mode = "idle"
  /\ calls < MaxRuns
  /\ \E queue \in {start_review(unknown, stats)} :
        review' = IF queue = <<>> THEN Idle
                  ELSE [mode |-> "plain", queue |-> queue, data |-> unknown]
  /\ presented' = <<>>
  /\ last' = Step("start_review", "", <<>>, last.skipped)
  /\ calls' = calls + 1
  /\ UNCHANGED <<rules_file, saving>>
  /\ UNCHANGED <<rules, client, cache, cache_file, task_queue, completed_tasks, workflow, unknown, unknown_parses, stats, learning_data, session>>

\* One round of the loop of start_review: review_merchant shows the merchant
\* and takes the choice ("s" to skip, "interrupt", or a category) into its
\* copy of the entry; then the entry of data is marked as reviewed and data
\* written to the file.
ReviewMerchant(choice) ==
  /\ review.mode = "plain"
  /\ LET info == Head(review.queue)
     IN /\ presented' = Append(presented, <<info.merchant>>)
        /\ \E data \in {MarkReviewed(review.data, info.merchant)} :
              /\ unknown' = data
              /\ review' = IF Tail(review.queue) = <<>> THEN Idle
                           ELSE [review EXCEPT !.queue = Tail(@), !.data = data]
        /\ last' = Step("review_merchant", choice, info.merchant,
                        IF choice = "s" THEN last.skipped \cup {info.merchant}
                        ELSE last.skipped)
  /\ UNCHANGED <<rules_file, saving>>
  /\ UNCHANGED <<rules, client, cache, cache_file, task_queue, completed_tasks, workflow, stats, learning_data, session, calls>>
  /\ UNCHANGED unknown_parses

\* start_enhanced_review up to the first group
StartEnhancedReview ==
  /\ review.mode = "idle"
  /\ calls < MaxRuns
  /\ \E got \in {_get_merchants_for_review(unknown, stats, rules, learning_data,
                    client, [i \in DOMAIN unknown |-> NoResponse])} :
        /\ rules' = got.rules
        /\ learning_data' = got.learning_data
        /\ \E groups \in {_group_similar_merchants(got.merchants)} :
              review' = IF groups = <<>> THEN Idle
                        ELSE [mode |-> "enhanced",
                              queue |-> [g \in DOMAIN groups |->
                                           [kind |-> "group",
                                            pattern |-> groups[g].pattern,
                                            merchants |-> groups[g].merchants]]]
  /\ presented' = <<>>
  /\ last' = Step("start_enhanced_review", "", <<>>, last.skipped)
  /\ calls' = calls + 1
  /\ UNCHANGED <<rules_file, saving>>
  /\ UNCHANGED <<client, cache, cache_file, task_queue, completed_tasks, workflow, unknown, unknown_parses, stats, session>>

\* _review_merchant_group: the group is shown; choice is "i" (individually,
\* the only way of a group of one), "s" (skip the group), "interrupt" (at the
\* prompt of the group, which ends the run), "a-s" ('a', then 's' at the
\* prompt of the batch), "a-interrupt" (at the prompt of the batch, which
\* leaves the group) or the category of 'a'.
ReviewGroup(choice) ==
  /\ review.mode = "enhanced"
  /\ Head(review.queue).kind = "group"
  /\ LET group == Head(review.queue)
         singles == [i \in DOMAIN group.merchants |->
                       [kind |-> "single", pattern |-> group.pattern,
                        merchants |-> <<group.merchants[i]>>]]
         rest == Tail(review.queue)
     IN /\ Len(group.merchants) = 1 => choice = "i"
        /\ presented' = Append(presented, Names(group.merchants))
        /\ last' = Step("review_merchant_group", choice, group.pattern,
                        IF choice \in {"s", "a-s"}
                          THEN last.skipped \cup Range(Names(group.merchants))
                          ELSE last.skipped)
        /\ IF choice = "i"
             THEN /\ review' = [review EXCEPT !.queue = singles \o rest]
                  /\ UNCHANGED <<unknown, rules, learning_data, session>>
           ELSE IF choice = "interrupt"
             THEN /\ review' = Idle
                  /\ UNCHANGED <<unknown, rules, learning_data, session>>
           ELSE IF choice \in {"s", "a-s", "a-interrupt"}
             THEN /\ review' = IF rest = <<>> THEN Idle
                               ELSE [review EXCEPT !.queue = rest]
                  /\ UNCHANGED <<unknown, rules, learning_data, session>>
           ELSE \E b \in {BatchFrom(group.merchants, 1, choice,
                            [unknown |-> unknown, rules |-> rules,
                             learning_data |-> learning_data,
                             session |-> session])} :
                  /\ unknown' = b.unknown
                  /\ rules' = b.rules
                  /\ learning_data' = b.learning_data
                  /\ session' = [_learn_pattern(b.session, group.pattern, choice,
                                                Len(group.merchants))
                                   EXCEPT !.merchants_reviewed =
                                     @ + Len(group.merchants)]
                  /\ review' = IF rest = <<>> THEN Idle
                               ELSE [review EXCEPT !.queue = rest]
  /\ UNCHANGED <<rules_file, saving>>
  /\ UNCHANGED <<client, cache, cache_file, task_queue, completed_tasks, workflow, stats, calls>>
  /\ UNCHANGED unknown_parses

\* A _review_single_merchant that counts a skipped merchant as reviewed.
SkipCountsAsReviewed(choice) ==
  /\ review.mode = "enhanced"
  /\ Head(review.queue).kind = "single"
  /\ LET merchant_data == Head(review.queue).merchants[1]
         rest == Tail(review.queue)
         chosen_category == IF choice = "a" THEN merchant_data.category ELSE choice
     IN /\ choice = "a" => merchant_data.category # "Unknown"
        /\ last' = Step("review_single_merchant", choice, merchant_data.merchant,
                        IF choice = "s"
                          THEN last.skipped \cup {merchant_data.merchant}
                          ELSE last.skipped)
        /\ review' = IF rest = <<>> THEN Idle ELSE [review EXCEPT !.queue = rest]
        /\ IF choice = "interrupt"
             THEN UNCHANGED <<unknown, rules, learning_data, session>>
           ELSE IF choice = "s"
             THEN /\ session' = [session EXCEPT !.merchants_reviewed = @ + 1]
                  /\ UNCHANGED <<unknown, rules, learning_data>>
             ELSE \E d \in {_save_categorization_decision(unknown, rules,
                              learning_data, session, merchant_data.merchant,
                              chosen_category, "individual_human")} :
                    /\ unknown' = d.unknown
                    /\ rules' = d.rules
                    /\ learning_data' = d.learning_data
                    /\ session' = [d.session EXCEPT !.merchants_reviewed = @ + 1]
  /\ UNCHANGED <<rules_file, saving>>
  /\ UNCHANGED <<client, cache, cache_file, task_queue, completed_tasks, workflow, stats, presented, calls>>
  /\ UNCHANGED unknown_parses

\* _review_single_merchant: choice is "a" (accept the suggestion, which is
\* not "Unknown"), "s" (skip), "interrupt" or a category.
ReviewSingle(choice) ==
  /\ review.mode = "enhanced"
  /\ Head(review.queue).kind = "single"
  /\ LET merchant_data == Head(review.queue).merchants[1]
         rest == Tail(review.queue)
         chosen_category == IF choice = "a" THEN merchant_data.category ELSE choice
     IN /\ choice = "a" => merchant_data.category # "Unknown"
        /\ last' = Step("review_single_merchant", choice, merchant_data.merchant,
                        IF choice = "s"
                          THEN last.skipped \cup {merchant_data.merchant}
                          ELSE last.skipped)
        /\ review' = IF rest = <<>> THEN Idle ELSE [review EXCEPT !.queue = rest]
        /\ IF choice \in {"s", "interrupt"}
             THEN UNCHANGED <<unknown, rules, learning_data, session>>
             ELSE \E d \in {_save_categorization_decision(unknown, rules,
                              learning_data, session, merchant_data.merchant,
                              chosen_category, "individual_human")} :
                    /\ unknown' = d.unknown
                    /\ rules' = d.rules
                    /\ learning_data' = d.learning_data
                    /\ session' = [d.session EXCEPT !.merchants_reviewed = @ + 1]
  /\ UNCHANGED <<rules_file, saving>>
  /\ UNCHANGED <<client, cache, cache_file, task_queue, completed_tasks, workflow, stats, presented, calls>>
  /\ UNCHANGED unknown_parses

NextReview ==
  \/ AnalysisPass(<<Alpha, Gamma>>)
  \/ \E category \in {"Shopping", "Unknown"} : UpdateCategory(Alpha, category)
  \/ StartReview
  \/ \E choice \in {"s", "interrupt"} \cup ReviewCategories : ReviewMerchant(choice)
  \/ StartEnhancedReview
  \/ \E choice \in {"i", "s", "a-s", "interrupt", "a-interrupt"} \cup ReviewCategories :
       ReviewGroup(choice)
  \/ \E choice \in {"a", "s", "interrupt"} \cup ReviewCategories : ReviewSingle(choice)

SpecReview == InitReview /\ [][NextReview]_vars

-----------------------------------------------------------------------------
(* Claims about the review order, under SpecReview *)

\* C10 as stated: in every review run, plain or enhanced, a merchant is
\* never presented after a merchant of a lower aggregate amount.
C10_AsStated ==
  \A s, t \in DOMAIN presented :
     s < t => \A i \in DOMAIN presented[s], j \in DOMAIN presented[t] :
                 total_amount(stats, presented[t][j])
                   <= total_amount(stats, presented[s][i])

-----------------------------------------------------------------------------
(* Claims about the decisions of a review *)

\* The entries of the file about merchant.
RecordsOf(store, merchant) == {i \in DOMAIN store : store[i].merchant = merchant}

\* C11: each _save_categorization_decision(merchant, category, source) sets
\* the one entry of the merchant to human_reviewed with the category and the
\* source, calls learn with (merchant, category, source), appends exactly one
\* decision to the session and leaves the entries of other merchants as they
\* were.  Checked under Spec on every RecordDecision step.
C11_RecordDecisionDoesAllThree ==
  [][last'.op = "record_decision" =>
       LET merchant == last'.input.chars
           call == last'.learn_calls[1]
           learned == _learn_from_categorization(rules, learning_data, merchant,
                                                 call.category, call.source)
       IN /\ Cardinality(RecordsOf(unknown', merchant)) = 1
          /\ \A i \in RecordsOf(unknown', merchant) :
                /\ unknown'[i].human_reviewed
                /\ unknown'[i].suggested_category = call.category
                /\ unknown'[i].review_source = call.source
          /\ Len(last'.learn_calls) = 1
          /\ call.merchant = merchant
          /\ rules' = learned.rules
          /\ learning_data' = learned.learning_data
          /\ session'.decisions_made =
               Append(session.decisions_made,
                      [merchant |-> merchant, category |-> call.category,
                       source |-> call.source])
          /\ \A i \in DOMAIN unknown :
                unknown[i].merchant # merchant => /\ i \in DOMAIN unknown'
                                                  /\ unknown'[i] = unknown[i]
  ]_vars

\* C11 witness: two decisions were recorded, the last one for a merchant
\* that had an entry, beside the entry of another merchant.
C11_Witness ==
  /\ last.op = "record_decision"
  /\ Len(session.decisions_made) = 2
  /\ Len(unknown) = 2
  /\ session.decisions_made[1].merchant # session.decisions_made[2].merchant
  /\ \A i \in DOMAIN unknown : unknown[i].human_reviewed

\* C12 as stated: after a batch apply of a category other than "Unknown" and
\* "Other" to a group, every entry of the group is human_reviewed, the cache
\* maps every merchant of the group to the category, and the rule list holds
\* a rule it did not hold before.  Checked under SpecReview.
C12_AsStated ==
  [][(/\ last'.op = "review_merchant_group"
      /\ last'.choice \in ReviewCategories \ {"Unknown", "Other"})
     => LET group == presented'[Len(presented')]
        IN /\ \A g \in DOMAIN group :
                 /\ \A i \in RecordsOf(unknown', group[g]) : unknown'[i].human_reviewed
                 /\ InCache(cache', group[g])
                 /\ CacheGet(cache', group[g]) = last'.choice
           /\ \E i \in DOMAIN rules' : \A j \in DOMAIN rules : rules'[i] # rules[j]
  ]_vars

\* The parts of C12 the workflow does: the entries of the group are
\* human_reviewed with the category, and the rules grow.
C12_RecordsAndRules ==
  [][(/\ last'.op = "review_merchant_group"
      /\ last'.choice \in ReviewCategories \ {"Unknown", "Other"})
     => LET group == presented'[Len(presented')]
        IN /\ \A g \in DOMAIN group :
                 \A i \in RecordsOf(unknown', group[g]) :
                    unknown'[i].human_reviewed
                    /\ unknown'[i].suggested_category = last'.choice
           /\ \E i \in DOMAIN rules' : \A j \in DOMAIN rules : rules'[i] # rules[j]
  ]_vars

\* C13 as stated: in every reachable state of the file, an entry that is
\* human_reviewed has a suggested_category other than "Unknown" unless the
\* reviewer explicitly skipped the merchant.  Checked under SpecReview.
C13_AsStated ==
  \A i \in DOMAIN unknown :
     (unknown[i].human_reviewed /\ unknown[i].suggested_category = "Unknown")
       => unknown[i].merchant \in last.skipped

\* The part of C13 the enhanced workflow keeps: a decision it records leaves
\* the entry of the merchant human_reviewed with the category chosen.
C13_EnhancedDecision ==
  (/\ last.op = "review_single_merchant"
   /\ last.choice \notin {"s", "interrupt"})
  => \A i \in RecordsOf(unknown, last.subject) :
        /\ unknown[i].human_reviewed
        /\ unknown[i].suggested_category # "Unknown"

\* C15 as stated: an interrupt at the prompt for a merchant records no
\* decision for it (its entry stays as it was, not human_reviewed, no rule is
\* learned, the session gets no entry) and leaves every other entry of the
\* file unchanged.  Checked under SpecReview on every step of a prompt.
C15_AsStated ==
  [][(/\ last'.op \in {"review_merchant", "review_single_merchant"}
      /\ last'.choice = "interrupt")
     => /\ \A i \in RecordsOf(unknown', last'.subject) : ~unknown'[i].human_reviewed
        /\ unknown' = unknown
        /\ rules' = rules
        /\ session' = session
  ]_vars

\* The part of C15 the enhanced workflow keeps: an interrupt at the prompt of
\* _review_single_merchant changes no store.
C15_EnhancedInterrupt ==
  [][(/\ last'.op = "review_single_merchant"
      /\ last'.choice = "interrupt")
     => /\ unknown' = unknown
        /\ rules' = rules
        /\ learning_data' = learning_data
        /\ session' = session
  ]_vars

\* C20 as stated: in the plain review interface, after the reviewer selects
\* category C for merchant m, the entry of m in the file has
\* suggested_category C and is human_reviewed, and load_human_categories
\* reports m with C.  Checked under SpecReview.
C20_AsStated ==
  (/\ last.op = "review_merchant"
   /\ last.choice \in ReviewCategories)
  => /\ \A i \in RecordsOf(unknown, last.subject) :
           /\ unknown[i].human_reviewed
           /\ unknown[i].suggested_category = last.choice
     /\ <<last.subject, last.choice>> \in Range(load_human_categories(unknown))

\* Whether the rule file holds an entry for the rule.
Persisted(file, rule) ==
  /\ file.exists /\ file.complete
  /\ \E k \in DOMAIN file.data :
        /\ file.data[k].pattern = rule.pattern
        /\ file.data[k].category = rule.category
        /\ file.data[k].rule_type = rule.rule_type

\* C14 as stated: when the workflow moves on from a decision, the persisted
\* stores hold everything the decision changed: the entry of the merchant is
\* human_reviewed in the file, and every rule learned from the decision is in
\* the rule file.  Checked under SpecReview on every step that records a
\* decision.
C14_AsStated ==
  [][(/\ last'.op \in {"review_single_merchant", "review_merchant_group"}
      /\ session'.decisions_made # session.decisions_made)
     => /\ \A d \in Range(session'.decisions_made) \ Range(session.decisions_made) :
              \A i \in RecordsOf(unknown', d.merchant) : unknown'[i].human_reviewed
        /\ \A i \in DOMAIN rules' :
              (\A j \in DOMAIN rules : rules'[i] # rules[j])
                => Persisted(rules_file', rules'[i])
  ]_vars

\* The part of C14 the workflow keeps: the entry of every merchant decided in
\* a step is human_reviewed in the file when the step is over.
C14_RecordPersisted ==
  [][(/\ last'.op \in {"review_single_merchant", "review_merchant_group"}
      /\ session'.decisions_made # session.decisions_made)
     => \A d \in Range(session'.decisions_made) \ Range(session.decisions_made) :
           \A i \in RecordsOf(unknown', d.merchant) : unknown'[i].human_reviewed
  ]_vars

-----------------------------------------------------------------------------
(* Claims about the usage counts, under SpecApply *)

\* C19 as stated: an apply call that returns a rule increases the
\* usage_count of that rule by exactly 1 and leaves the usage_count of every
\* other rule unchanged, and an apply call with no match changes no
\* usage_count.
C19_AsStated ==
  last.op = "apply" =>
    LET rs == last.rules_before
        M == {i \in MatchingRules(rs, last.input.chars) : rs[i].confidence > 0}
    IN /\ Len(rules) = Len(rs)
       /\ \A i \in DOMAIN rs :
             rules[i].usage_count =
               rs[i].usage_count
                 + (IF M # {} /\ i = FirstOfHighest(rs, M) THEN 1 ELSE 0)

\* The part of C19 that _apply_rules keeps: the rule returned is counted
\* once, a rule that does not match or has no higher confidence than every
\* matching rule before it is not counted, and nothing else of a rule changes.
C19_WinnerCountedOnce ==
  last.op = "apply" =>
    LET rs == last.rules_before
        M == {i \in MatchingRules(rs, last.input.chars) : rs[i].confidence > 0}
    IN /\ SameRulesButUsage(rules, rs)
       /\ \A i \in DOMAIN rs :
             rules[i].usage_count =
               rs[i].usage_count
                 + (IF i \in M /\ \A j \in M : j < i => rs[j].confidence < rs[i].confidence
                    THEN 1 ELSE 0)

-----------------------------------------------------------------------------
(* Rule store: _load_rules, _save_rules step by step, categorize_batch *)

RequiredFields ==
  {"pattern", "category", "confidence", "rule_type", "created_by", "created_at"}

\* A mutant of Parses: every file that exists is taken as it is.
ParsesAnything(file) == TRUE

\* json.load and the loop of _load_rules go through: the text is a whole
\* document, no entry lacks a field read with rule_data[...], and every
\* created_at is a text fromisoformat() takes.
Parses(file) ==
  /\ file.complete
  /\ \A i \in DOMAIN file.data :
        /\ file.data[i].missing \cap RequiredFields = {}
        /\ file.data[i].created_at = "iso"

\* CategoryRule(...) of an entry of the file, usage_count being
\* rule_data.get("usage_count", 0).
LoadedRule(rule_data) ==
  [pattern |-> rule_data.pattern, category |-> rule_data.category,
   confidence |-> rule_data.confidence, rule_type |-> rule_data.rule_type,
   created_by |-> rule_data.created_by,
   usage_count |-> IF "usage_count" \in rule_data.missing THEN 0
                   ELSE rule_data.usage_count]

\* _load_rules(): the rules of the file, or the default rules, which are
\* then saved, when the file is absent or reading it raises.
_load_rules(file) ==
  IF file.exists /\ Parses(file)
    THEN [defaults |-> FALSE, rules |-> [i \in DOMAIN file.data |-> LoadedRule(file.data[i])]]
    ELSE [defaults |-> TRUE, rules |-> _initialize_default_rules]

\* Entries json.dump gets into the file with one write of the buffer.
WriteChunk == 32

\* open(self.rules_file, 'w'): the file exists and is empty.
Opened == RulesFile(TRUE, FALSE, <<>>)

\* A running _save_rules(rules): the entries to write and the rules the
\* caller holds.
Saving(rs) ==
  [active |-> TRUE, data |-> [i \in DOMAIN rs |-> RuleData(rs[i])], rules |-> rs]

-----------------------------------------------------------------------------
(* Specification of the rule store: engines are constructed, batches are
   categorized, and the process may die while the file is written *)

\* Rule files an engine may find.
StoredFiles ==
  LET data == _save_rules(LoadedRules).data
  IN {AbsentFile,
      RulesFile(TRUE, TRUE, data),
      RulesFile(TRUE, TRUE, [data EXCEPT ![1].missing = {"usage_count"}]),
      RulesFile(TRUE, FALSE, <<>>),
      RulesFile(TRUE, FALSE, SubSeq(data, 1, 2)),
      RulesFile(TRUE, TRUE, [data EXCEPT ![2].missing = {"category"}]),
      RulesFile(TRUE, TRUE, [data EXCEPT ![3].created_at = "bad"]),
      RulesFile(TRUE, TRUE, <<>>)}

NoCall ==
  [op |-> "none", outcome |-> "none", file |-> AbsentFile, input |-> <<>>,
   response |-> NoResponse, results |-> <<>>, events |-> <<>>,
   rules_before |-> <<>>]

InitStore ==
  /\ rules = <<>>
  /\ client \in BOOLEAN
  /\ cache = <<>>
  /\ unknown = <<>>
  /\ stats = <<>>
  /\ learning_data = <<>>
  /\ session = NewSession
  /\ review = Idle
  /\ presented = <<>>
  /\ last = NoCall
  /\ calls = 0
  /\ rules_file \in StoredFiles
  /\ saving = NotSaving
  /\ cache_file = AbsentCache
  /\ task_queue = <<>>
  /\ completed_tasks = <<>>
  /\ workflow = NoWorkflow
  /\ unknown_parses = TRUE

\* CategorizationEngine(): _load_rules up to its return or, for the default
\* rules, up to the open() of _save_rules.
Load ==
  /\ ~saving.active
  /\ last.op \in {"none", "crash"}
  /\ \E loaded \in {_load_rules(rules_file)} :
        IF loaded.defaults
          THEN /\ rules' = <<>>
               /\ saving' = Saving(loaded.rules)
               /\ rules_file' = Opened
               /\ last' = [NoCall EXCEPT !.op = "load", !.outcome = "saving",
                                         !.file = rules_file]
          ELSE /\ rules' = loaded.rules
               /\ UNCHANGED <<saving, rules_file>>
               /\ last' = [NoCall EXCEPT !.op = "load", !.outcome = "return",
                                         !.file = rules_file]
  /\ UNCHANGED <<client, cache, cache_file, task_queue, completed_tasks, workflow, unknown, unknown_parses, stats, learning_data, session, review,
                 presented, calls>>

\* json.dump: the next entries reach the file.
SaveWrite ==
  /\ saving.active
  /\ Len(rules_file.data) < Len(saving.data)
  /\ LET n == Len(rules_file.data) + WriteChunk
         upto == IF n < Len(saving.data) THEN n ELSE Len(saving.data)
     IN rules_file' = RulesFile(TRUE, FALSE, SubSeq(saving.data, 1, upto))
  /\ UNCHANGED <<rules, client, cache, cache_file, task_queue, completed_tasks, workflow, unknown, unknown_parses, stats, learning_data, session,
                 review, presented, last, calls, saving>>

\* The end of _save_rules and the return of its caller.
SaveClose ==
  /\ saving.active
  /\ Len(rules_file.data) = Len(saving.data)
  /\ rules_file' = RulesFile(TRUE, TRUE, saving.data)
  /\ saving' = NotSaving
  /\ rules' = saving.rules
  /\ last' = [last EXCEPT !.outcome = "return"]
  /\ UNCHANGED <<client, cache, cache_file, task_queue, completed_tasks, workflow, unknown, unknown_parses, stats, learning_data, session, review,
                 presented, calls>>

\* The process dies while _save_rules runs; the file stays as written so far.
Crash ==
  /\ saving.active
  /\ saving' = NotSaving
  /\ rules' = <<>>
  /\ last' = [last EXCEPT !.op = "crash", !.outcome = "none"]
  /\ UNCHANGED <<client, cache, cache_file, task_queue, completed_tasks, workflow, unknown, unknown_parses, stats, learning_data, session, review,
                 presented, calls, rules_file>>

MaxBatches == 1

\* engine.categorize_batch(merchants) up to the open() of its _save_rules,
\* the remote classifier answering `response` whenever it is called.
CategorizeBatch(merchants, response) ==
  /\ ~saving.active
  /\ last.outcome = "return"
  /\ calls < MaxBatches
  /\ \E b \in {categorize_batch(rules, learning_data, client, merchants, response)} :
        /\ rules' = b.rules
        /\ learning_data' = b.learning_data
        /\ last' = [op |-> "categorize_batch",
                    outcome |-> IF b.raised THEN "raise" ELSE "saving",
                    file |-> rules_file, input |-> merchants,
                    response |-> response, results |-> b.results,
                    events |-> b.events, rules_before |-> rules]
        /\ IF b.raised THEN UNCHANGED <<saving, rules_file>>
           ELSE /\ saving' = Saving(b.rules)
                /\ rules_file' = Opened
  /\ calls' = calls + 1
  /\ UNCHANGED <<client, cache, cache_file, task_queue, completed_tasks, workflow, unknown, unknown_parses, stats, session, review, presented>>

NextStore ==
  \/ Load
  \/ SaveWrite
  \/ SaveClose
  \/ Crash
  \/ \E merchants \in SeqsUpTo(BatchMerchants, MaxBatchLen),
        response \in BatchResponses :
       CategorizeBatch(merchants, response)

SpecStore == InitStore /\ [][NextStore]_vars

-----------------------------------------------------------------------------
(* Claims about the rule store, under SpecStore *)

\* The merchants of a batch without the later duplicates.
RECURSIVE Dedupe(_)
Dedupe(seq) ==
  IF seq = <<>> THEN <<>>
  ELSE LET Added(d) == IF seq[Len(seq)] \in Range(d) THEN d
                       ELSE Append(d, seq[Len(seq)])
       IN Added(Dedupe(SubSeq(seq, 1, Len(seq) - 1)))

\* C16: categorize_batch runs categorize_merchant exactly once per distinct
\* merchant string of its input, in the order of first occurrence (a later
\* duplicate causes no call, no remote call and no usage_count change),
\* returns one entry per distinct merchant, and writes the rule store exactly
\* once, after the last merchant and never between items.
C16_BatchOncePerMerchantOneSave ==
  last.op = "categorize_batch" =>
    LET distinct == Dedupe(last.input)
        n == Len(distinct)
        once == categorize_batch(last.rules_before, <<>>, client, distinct,
                                 last.response)
    IN /\ Len(last.events) = n + 1
       /\ \A i \in 1..n : /\ last.events[i].event = "categorize_merchant"
                          /\ last.events[i].merchant = distinct[i]
       /\ last.events[n + 1] = SaveEvent
       /\ Len(last.results) = n
       /\ \A i \in 1..n : last.results[i][1] = distinct[i]
       /\ last.events = once.events
       /\ rules = once.rules
       /\ last.outcome = "saving" => saving.data = _save_rules(rules).data
       /\ last.outcome = "return" => rules_file = _save_rules(rules)

\* C16 witness: a batch of twice the same merchant returned; its one call of
\* categorize_merchant asked the remote classifier and changed the rules, and
\* the file holds them.
C16_Witness ==
  /\ last.op = "categorize_batch"
  /\ last.outcome = "return"
  /\ Len(last.input) = 2
  /\ last.input[1] = last.input[2]
  /\ Len(last.events) = 2
  /\ last.events[1].llm_calls = 1
  /\ rules # last.rules_before
  /\ rules_file = _save_rules(rules)

\* The number of keywords of the category table from category i on.
RECURSIVE KeywordCount(_)
KeywordCount(i) ==
  IF i > Len(categories) THEN 0
  ELSE Len(categories[i].keywords) + KeywordCount(i + 1)

\* The seed rule set as the claim describes it: one 0.8 contains-rule per
\* keyword of the category table, then the overrides with a confidence of
\* 0.90 to 0.99.
IsSeed(rs) ==
  LET k == KeywordCount(1)
  IN /\ Len(rs) = k + Len(high_confidence_rules)
     /\ \A i \in 1..k :
           /\ rs[i].confidence = 80 /\ rs[i].rule_type = "contains"
           /\ \E c \in DOMAIN categories :
                 /\ rs[i].category = categories[c].name
                 /\ \E w \in DOMAIN categories[c].keywords :
                       rs[i].pattern = Lower(categories[c].keywords[w])
     /\ \A c \in DOMAIN categories : \A w \in DOMAIN categories[c].keywords :
           \E i \in 1..k : /\ rs[i].category = categories[c].name
                           /\ rs[i].pattern = Lower(categories[c].keywords[w])
     /\ \A i \in DOMAIN high_confidence_rules :
           /\ rs[k + i].confidence \in 90..99
           /\ rs[k + i].rule_type = "contains"
           /\ rs[k + i].category = high_confidence_rules[i].category

\* The file is absent or cannot be parsed: its text is not a whole document,
\* an entry lacks a required field, or a timestamp is bad.
Unreadable(file) ==
  \/ ~file.exists
  \/ ~file.complete
  \/ \E i \in DOMAIN file.data :
        \/ file.data[i].missing \cap RequiredFields # {}
        \/ file.data[i].created_at # "iso"

C18_AsStated ==
  (saving.active \/ last.op = "crash")
    => \/ rules_file = last.file
       \/ rules_file.exists /\ rules_file.complete

-----------------------------------------------------------------------------
(* Claims about what learning appends, under Spec *)

\* merchant[a..b] is a token: a longest run of characters without a
\* delimiter.
IsToken(merchant, a, b) ==
  /\ a \in DOMAIN merchant /\ b \in DOMAIN merchant /\ a <= b
  /\ \A k \in a..b : merchant[k] \notin Delimiters
  /\ a = 1 \/ merchant[a - 1] \in Delimiters
  /\ b = Len(merchant) \/ merchant[b + 1] \in Delimiters

\* The lowercased tokens of at least 3 characters that are no stopwords.
QualifyingPatterns(merchant) ==
  {Lower(SubSeq(merchant, a, b)) :
     <<a, b>> \in {ab \in (DOMAIN merchant) \X (DOMAIN merchant) :
                     /\ IsToken(merchant, ab[1], ab[2])
                     /\ ab[2] - ab[1] + 1 >= 3
                     /\ Lower(SubSeq(merchant, ab[1], ab[2])) \notin common_words}}

-----------------------------------------------------------------------------
(* Claims about the groups of the enhanced review, under SpecReview *)

\* The merchants of the file that are candidates of a review.
Candidates(store) == {store[i].merchant : i \in {j \in DOMAIN store : ~store[j].human_reviewed}}

\* The places <<g, k>> of the groups at which a merchant stands.
PlacesOf(groups, merchant) ==
  {gk \in (DOMAIN groups) \X (1..Len(unknown)) :
     /\ gk[2] \in DOMAIN groups[gk[1]].merchants
     /\ groups[gk[1]].merchants[gk[2]].merchant = merchant}

\* C22: the groups start_enhanced_review forms partition the candidates:
\* every candidate stands in exactly one group and nothing else does, two
\* merchants share a group exactly when their patterns are equal, the members
\* of a group stand in non-increasing order of amount, and the groups stand in
\* non-increasing order of the sum of their members' amounts.
C22_GroupsPartitionCandidates ==
  (last.op = "start_enhanced_review" /\ review.mode = "enhanced") =>
    LET groups == review.queue
        Sum(g) == SumAmounts(groups[g].merchants)
    IN /\ \A c \in Candidates(unknown) : Cardinality(PlacesOf(groups, c)) = 1
       /\ \A g \in DOMAIN groups :
             /\ groups[g].merchants # <<>>
             /\ \A k \in DOMAIN groups[g].merchants :
                   /\ groups[g].merchants[k].merchant \in Candidates(unknown)
                   /\ groups[g].merchants[k].total_amount
                        = total_amount(stats, groups[g].merchants[k].merchant)
             /\ \A k, l \in DOMAIN groups[g].merchants :
                   k < l => groups[g].merchants[k].total_amount
                              >= groups[g].merchants[l].total_amount
       /\ \A g, h \in DOMAIN groups :
             /\ \A k \in DOMAIN groups[g].merchants, l \in DOMAIN groups[h].merchants :
                   (g = h) <=> (_extract_pattern(groups[g].merchants[k].merchant)
                                  = _extract_pattern(groups[h].merchants[l].merchant))
             /\ g < h => Sum(g) >= Sum(h)

\* C22 witness: a review started with a group of two merchants of different
\* amounts standing before a group of one merchant whose amount is higher
\* than that of the second of them.
C22_Witness ==
  /\ last.op = "start_enhanced_review"
  /\ review.mode = "enhanced"
  /\ Len(review.queue) = 2
  /\ Len(review.queue[1].merchants) = 2
  /\ review.queue[1].merchants[1].total_amount > review.queue[1].merchants[2].total_amount
  /\ review.queue[2].merchants[1].total_amount > review.queue[1].merchants[2].total_amount

-----------------------------------------------------------------------------
(* Claims about the life of a rule, under Spec *)

\* C23: over every call of categorize_merchant, categorize_batch, learn and
\* the recording of a decision on one engine, each rule of the list stays at
\* its position with its pattern, category, confidence, rule_type and
\* created_by; its usage_count does not decrease.
C23_RulesOnlyAppended ==
  [][\A i \in DOMAIN rules :
        /\ i \in DOMAIN rules'
        /\ rules'[i].pattern = rules[i].pattern
        /\ rules'[i].category = rules[i].category
        /\ rules'[i].confidence = rules[i].confidence
        /\ rules'[i].rule_type = rules[i].rule_type
        /\ rules'[i].created_by = rules[i].created_by
        /\ rules'[i].usage_count >= rules[i].usage_count]_vars

\* C23 witness: one call of the engine counted a use of a rule and appended
\* a rule behind the list, and a later call appended again.
C23_Witness ==
  /\ calls = 2
  /\ Len(rules) > Len(last.rules_before)
  /\ Len(last.rules_before) > Len(LoadedRules)
  /\ \E i \in DOMAIN last.rules_before : last.rules_before[i].usage_count > 0

-----------------------------------------------------------------------------
(* Claims about the records of the unknown-merchant file, under SpecReview *)

\* C24 as stated: every record of the unknown-merchant file carries
\* date_added in every reachable state, also after a decision was recorded
\* for its merchant by the enhanced workflow or by update_category.
C24_AsStated ==
  \A i \in DOMAIN unknown : unknown[i].date_added

\* C24, what holds: every record that is not marked as reviewed carries
\* date_added.
C24_UnreviewedRecordsDated ==
  \A i \in DOMAIN unknown : ~unknown[i].human_reviewed => unknown[i].date_added

-----------------------------------------------------------------------------
(* Specification of categorize.py: the cache is loaded, rows are categorized
   into it, and it is saved at the end of the run *)

MaxScriptSteps == 3

\* Items of the billing file and the categories a suggestion or the user's
\* entry may be.
ScriptItems == {Probe, ProbeG, <<"x", "y", "z">>}

ScriptCategories == {"Food Expenses", "Toys"}

NoRun == [op |-> "none", outcome |-> "none", item |-> <<>>, category |-> ""]

InitCache ==
  /\ rules = <<>>
  /\ client = FALSE
  /\ cache = <<>>
  /\ unknown = <<>>
  /\ stats = <<>>
  /\ learning_data = <<>>
  /\ session = NewSession
  /\ review = Idle
  /\ presented = <<>>
  /\ last = NoRun
  /\ calls = 0
  /\ rules_file = AbsentFile
  /\ saving = NotSaving
  /\ unknown_parses = TRUE
  /\ cache_file \in {AbsentCache, CacheFile(TRUE, TRUE, <<>>),
                     CacheFile(TRUE, TRUE, << <<Probe, "Toys">> >>)}
  /\ task_queue = <<>>
  /\ completed_tasks = <<>>
  /\ workflow = NoWorkflow

\* load_cache(): json.load of the file if it exists, {} otherwise; a file
\* that is no JSON document makes json.load raise JSONDecodeError.
load_cache(file) ==
  IF ~file.exists THEN [outcome |-> "return", cache |-> <<>>]
  ELSE IF file.parses THEN [outcome |-> "return", cache |-> file.data]
  ELSE [outcome |-> "raise", cache |-> <<>>]

\* categorize.py is started: cache = load_cache()
LoadCache ==
  /\ last.op = "none"
  /\ \E loaded \in {load_cache(cache_file)} :
        /\ cache' = loaded.cache
        /\ last' = [NoRun EXCEPT !.op = "load_cache", !.outcome = loaded.outcome]
  /\ UNCHANGED <<rules, client, unknown, unknown_parses, stats, learning_data, session, review,
                 presented, calls, rules_file, saving, cache_file, task_queue, completed_tasks, workflow>>

\* Whether the script is in its row loop.
InRowLoop == last.op \in {"load_cache", "row"} /\ last.outcome = "return"

\* One row of the loop: the suggestion is the cached category, the category
\* of the fuzzy match or the answer of the remote classifier; confirm is "y",
\* "n" (entered is then the category the web search branch ends with) or a
\* category typed in, and the category taken is stored in the cache.
Row(item, remote, confirm, entered) ==
  /\ InRowLoop
  /\ calls < MaxScriptSteps
  /\ LET Suggested(fuzzy_result) ==
           IF InCache(cache, item) THEN CacheGet(cache, item)
           ELSE IF fuzzy_result # NoMatchFound THEN fuzzy_result.category
           ELSE remote
         Taken(suggested_category) ==
           IF confirm = "y" THEN suggested_category
           ELSE IF confirm = "n" THEN entered
           ELSE confirm
         Stored(category) ==
           /\ cache' = CachePut(cache, item, category)
           /\ last' = [op |-> "row", outcome |-> "return", item |-> item,
                       category |-> category]
     IN Stored(Taken(Suggested(find_fuzzy_match(item, cache, DefaultThreshold))))
  /\ calls' = calls + 1
  /\ UNCHANGED <<rules, client, unknown, unknown_parses, stats, learning_data, session, review,
                 presented, rules_file, saving, cache_file, task_queue, completed_tasks, workflow>>

\* save_cache(cache) after the loop; the run ends.
SaveCache ==
  /\ InRowLoop
  /\ cache_file' = CacheFile(TRUE, TRUE, cache)
  /\ UNCHANGED <<task_queue, completed_tasks, workflow>>
  /\ last' = [NoRun EXCEPT !.op = "save_cache", !.outcome = "return"]
  /\ UNCHANGED <<rules, client, cache, unknown, unknown_parses, stats, learning_data, session,
                 review, presented, calls, rules_file, saving>>

\* The process dies in save_cache between open(CACHE_FILE, 'w') and the end
\* of json.dump: the file holds the first n entries and the text breaks off.
SaveCacheKilled(n) ==
  /\ InRowLoop
  /\ n <= Len(cache)
  /\ cache_file' = CacheFile(TRUE, FALSE, SubSeq(cache, 1, n))
  /\ UNCHANGED <<task_queue, completed_tasks, workflow>>
  /\ last' = [NoRun EXCEPT !.op = "save_cache", !.outcome = "killed"]
  /\ UNCHANGED <<rules, client, cache, unknown, unknown_parses, stats, learning_data, session,
                 review, presented, calls, rules_file, saving>>

\* The run is over; the script can be started again.
EndRun ==
  /\ last.op = "save_cache" \/ last.outcome = "raise"
  /\ calls < MaxScriptSteps
  /\ cache' = <<>>
  /\ last' = NoRun
  /\ calls' = calls + 1
  /\ UNCHANGED <<rules, client, unknown, unknown_parses, stats, learning_data, session, review,
                 presented, rules_file, saving, cache_file, task_queue, completed_tasks, workflow>>

NextCache ==
  \/ LoadCache
  \/ \E item \in ScriptItems, remote \in ScriptCategories,
        confirm \in {"y", "n", "Toys"}, entered \in ScriptCategories :
       Row(item, remote, confirm, entered)
  \/ SaveCache
  \/ \E n \in 0..MaxScriptSteps : SaveCacheKilled(n)
  \/ EndRun

SpecCache == InitCache /\ [][NextCache]_vars

\* C25 as stated: the load of the cache does not raise; when the file exists
\* and cannot be parsed, the script continues with an empty cache.
C25_AsStated ==
  last.op = "load_cache" =>
    /\ last.outcome = "return"
    /\ (cache_file.exists /\ ~cache_file.parses) => cache = <<>>

\* C25, what holds: the load returns the entries of a file that parses and
\* an empty cache when there is no file.
C25_LoadOfReadableFile ==
  (last.op = "load_cache" /\ (~cache_file.exists \/ cache_file.parses)) =>
     /\ last.outcome = "return"
     /\ cache = (IF cache_file.exists THEN cache_file.data ELSE <<>>)

-----------------------------------------------------------------------------
(* Specification of the analysis passes: decisions are recorded, the file of
   unknown merchants may be left damaged, and the billing data is analysed *)

\* The rule file of the passes: a seed rule above the threshold and a
\* learned rule below it.
AnalysisRules ==
  ReviewRules \o <<CategoryRule(<<"b", "e", "t", "a">>, "Food & Dining",
                                LearnedConfidence, "contains", "llm")>>

\* The Merchant column of the billing data.
BillingRows == SeqsUpTo({Alpha, Beta1, Gamma}, 2)

\* A mutant of human_categories: every reviewed entry counts.
AllReviewed(store, parses) ==
  IF ~parses THEN <<>>
  ELSE SelectSeq(store, LAMBDA info : info.human_reviewed)

\* The human_categories of categorize_merchants: the reviewed entries of the
\* file with a category other than "Unknown"; none when the file does not
\* parse, the exception being printed.
human_categories(store, parses) ==
  IF ~parses THEN <<>>
  ELSE SelectSeq(store, LAMBDA info : info.human_reviewed
                                       /\ info.suggested_category # "Unknown")

\* human_categories[merchant]
HumanCategory(humans, merchant) ==
  humans[CHOOSE i \in DOMAIN humans : humans[i].merchant = merchant].suggested_category

EngineEvent(row, merchant, category, llm_calls) ==
  [row |-> row, merchant |-> merchant, category |-> category, llm_calls |-> llm_calls]

\* df['Merchant'].apply(get_category) from row i on; acc holds the Category
\* column, the calls of the engine, its rules and the learning file.
RECURSIVE CategorizeRows(_, _, _, _, _, _)
CategorizeRows(merchants, i, humans, has_client, response, acc) ==
  IF i > Len(merchants) THEN acc
  ELSE IF HasRecord(humans, merchants[i])
    THEN CategorizeRows(merchants, i + 1, humans, has_client, response,
           [acc EXCEPT !.categories = Append(@, HumanCategory(humans, merchants[i]))])
  ELSE LET Rest(r) ==
             CategorizeRows(merchants, i + 1, humans, has_client, response,
               [categories |-> Append(acc.categories, r.result.category),
                events |-> Append(acc.events,
                                  EngineEvent(i, merchants[i], r.result.category,
                                              r.llm_calls)),
                rules |-> r.rules, learning_data |-> r.learning_data])
       IN Rest(categorize_merchant(acc.rules, acc.learning_data, has_client,
                                   Str(merchants[i]), response))

\* df[df['Category'] == 'Unknown']['Merchant'].unique().tolist() from row i on
RECURSIVE remaining_unknown(_, _, _, _)
remaining_unknown(merchants, column, i, acc) ==
  IF i > Len(merchants) THEN acc
  ELSE remaining_unknown(merchants, column, i + 1,
         IF column[i] = "Unknown" /\ merchants[i] \notin Range(acc)
           THEN Append(acc, merchants[i]) ELSE acc)

NoPass ==
  [op |-> "none", input |-> <<>>, store_before |-> <<>>, parsed |-> TRUE,
   categories |-> <<>>, events |-> <<>>, rules_before |-> <<>>,
   rules_after |-> <<>>, unknown_merchants |-> <<>>, suggested_for |-> <<>>,
   response |-> NoResponse, learning_before |-> <<>>, skipped |-> {}]

InitAnalysis ==
  /\ rules = <<>>
  /\ client \in BOOLEAN
  /\ cache = <<>>
  /\ unknown \in {<<>>, <<NewUnknown(Alpha)>>, <<NewUnknown(Gamma), NewUnknown(Alpha)>>}
  /\ stats = <<>>
  /\ learning_data = <<>>
  /\ session = NewSession
  /\ review = Idle
  /\ presented = <<>>
  /\ last = NoPass
  /\ calls = 0
  /\ rules_file = _save_rules(AnalysisRules)
  /\ saving = NotSaving
  /\ cache_file = AbsentCache
  /\ task_queue = <<>>
  /\ completed_tasks = <<>>
  /\ workflow = NoWorkflow
  /\ unknown_parses = TRUE

\* BillingAgent.process_monthly_billing on billing data with the given
\* Merchant column: categorize_merchants with a new engine, the suggestions
\* of categorize_with_llm for the unknown merchants, and
\* save_unknown_categories, which takes a file that does not parse as empty.
ProcessMonthlyBilling(merchants, response) ==
  /\ calls < MaxRuns
  /\ merchants # <<>>
  /\ \E engine_rules \in {_load_rules(rules_file).rules} :
     \E done \in {CategorizeRows(merchants, 1, human_categories(unknown, unknown_parses),
                                 client, response,
                                 [categories |-> <<>>, events |-> <<>>,
                                  rules |-> engine_rules,
                                  learning_data |-> learning_data])} :
     \E unknown_merchants \in {remaining_unknown(merchants, done.categories, 1, <<>>)} :
        /\ learning_data' = done.learning_data
        /\ IF unknown_merchants = <<>>
             THEN UNCHANGED <<unknown, unknown_parses>>
             ELSE /\ unknown' = save_unknown_categories(
                                  IF unknown_parses THEN unknown ELSE <<>>,
                                  unknown_merchants, 1)
                  /\ unknown_parses' = TRUE
        /\ last' = [op |-> "process_monthly_billing", input |-> merchants,
                    store_before |-> unknown, parsed |-> unknown_parses,
                    categories |-> done.categories, events |-> done.events,
                    rules_before |-> engine_rules, rules_after |-> done.rules,
                    unknown_merchants |-> unknown_merchants,
                    suggested_for |-> IF client THEN unknown_merchants ELSE <<>>,
                    response |-> response, learning_before |-> learning_data,
                    skipped |-> {}]
  /\ calls' = calls + 1
  /\ UNCHANGED <<rules, client, cache, stats, session, review, presented,
                 rules_file, saving, cache_file, task_queue, completed_tasks, workflow>>

\* A writer of unknown_categories.json is killed in json.dump, or the file is
\* edited by hand: the text holds the first n entries and is no JSON document.
StoreDamaged(n) ==
  /\ unknown_parses
  /\ n \in 1..Len(unknown)
  /\ unknown' = SubSeq(unknown, 1, n)
  /\ unknown_parses' = FALSE
  /\ UNCHANGED <<rules, client, cache, stats, learning_data, session, review,
                 presented, last, calls, rules_file, saving, cache_file, task_queue, completed_tasks, workflow>>

NextAnalysis ==
  \/ \E merchant \in {Alpha, Gamma}, category \in {"Food & Dining", "Unknown"} :
       UpdateCategory(merchant, category)
  \/ \E merchants \in BillingRows, response \in BatchResponses :
       ProcessMonthlyBilling(merchants, response)
  \/ \E n \in 1..MaxRuns : StoreDamaged(n)

SpecAnalysis == InitAnalysis /\ [][NextAnalysis]_vars

\* C26 as stated: an analysis pass leaves every record of the file as it is
\* and adds a record {"Unknown", not reviewed, date_added} only for merchants
\* without a record, also when the file cannot be parsed at the start of the
\* pass.
C26_AsStated ==
  [][last'.op = "process_monthly_billing" /\ last' # last =>
       /\ \A i \in DOMAIN unknown : i \in DOMAIN unknown' /\ unknown'[i] = unknown[i]
       /\ \A j \in DOMAIN unknown' :
             j > Len(unknown) => /\ unknown'[j] = NewUnknown(unknown'[j].merchant)
                                 /\ ~HasRecord(unknown, unknown'[j].merchant)]_vars

\* C26, what holds: an analysis pass that finds a file that parses leaves
\* every record as it is and adds records for merchants without one.
C26_ParsedStoreKept ==
  [][last'.op = "process_monthly_billing" /\ last' # last /\ unknown_parses =>
       /\ \A i \in DOMAIN unknown : i \in DOMAIN unknown' /\ unknown'[i] = unknown[i]
       /\ \A j \in DOMAIN unknown' :
             j > Len(unknown) => /\ unknown'[j] = NewUnknown(unknown'[j].merchant)
                                 /\ ~HasRecord(unknown, unknown'[j].merchant)]_vars

\* The rows of a pass whose merchant has a human decision in the file as it
\* stood before the pass.
Decided(merchant) ==
  \E i \in DOMAIN last.store_before :
     /\ last.store_before[i].merchant = merchant
     /\ last.store_before[i].human_reviewed
     /\ last.store_before[i].suggested_category # "Unknown"

DecidedCategory(merchant) ==
  last.store_before[CHOOSE i \in DOMAIN last.store_before :
                      last.store_before[i].merchant = merchant].suggested_category

\* The engine run on the rows without a human decision alone, from row i on.
RECURSIVE EngineAlone(_, _, _, _, _, _)
EngineAlone(merchants, i, has_client, response, rs, ld) ==
  IF i > Len(merchants) THEN [rules |-> rs, learning_data |-> ld]
  ELSE IF Decided(merchants[i])
    THEN EngineAlone(merchants, i + 1, has_client, response, rs, ld)
  ELSE LET Rest(r) == EngineAlone(merchants, i + 1, has_client, response,
                                  r.rules, r.learning_data)
       IN Rest(categorize_merchant(rs, ld, has_client, Str(merchants[i]), response))

\* What C27 says of a pass.
HumanDecisionFirst ==
  /\ \A r \in DOMAIN last.input :
       IF Decided(last.input[r])
         THEN /\ last.categories[r] = DecidedCategory(last.input[r])
              /\ \A e \in DOMAIN last.events : last.events[e].row # r
              /\ last.input[r] \notin Range(last.suggested_for)
         ELSE \E e \in DOMAIN last.events :
                 /\ last.events[e].row = r
                 /\ last.events[e].merchant = last.input[r]
                 /\ last.categories[r] = last.events[e].category
  /\ \A e \in DOMAIN last.events : ~Decided(last.events[e].merchant)
  /\ \A e \in DOMAIN last.events : last.events[e].llm_calls > 0 => client
  /\ last.rules_after = EngineAlone(last.input, 1, client, last.response,
                                    last.rules_before, last.learning_before).rules
  /\ learning_data = EngineAlone(last.input, 1, client, last.response,
                                 last.rules_before, last.learning_before).learning_data

-----------------------------------------------------------------------------
(* C28: a skip of the enhanced workflow changes nothing *)

\* The step just taken is a skip of the enhanced workflow: 's' for a group,
\* 's' at the prompt of the batch categorization, or 's' for one merchant.
EnhancedSkip ==
  /\ last'.op \in {"review_merchant_group", "review_single_merchant"}
  /\ last'.choice \in {"s", "a-s"}
  /\ last' # last

\* C28: a skip of the enhanced workflow (of a group, inside the batch
\* categorization, of a single merchant) leaves the file of unknown merchants,
\* the rules in memory and on disk, the learning data and the session (its
\* counter and its logs) as they were, and every merchant of the skipped item
\* that was unreviewed is a candidate of the next review run.  Checked under
\* SpecReview.
C28_SkipChangesNothing ==
  [][EnhancedSkip =>
       /\ unknown' = unknown
       /\ rules' = rules
       /\ rules_file' = rules_file
       /\ learning_data' = learning_data
       /\ session' = session
       /\ \A merchant \in Range(Names(Head(review.queue).merchants)) :
            merchant \in Candidates(unknown) => merchant \in Candidates(unknown')]_vars

\* C28: a review run has started in which a merchant skipped before stands in
\* the queue again, after a session that has counted a reviewed merchant.
C28_Witness ==
  /\ last.op = "start_enhanced_review"
  /\ review.mode = "enhanced"
  /\ session.merchants_reviewed > 0
  /\ \E g \in DOMAIN review.queue :
       Range(Names(review.queue[g].merchants)) \cap last.skipped # {}

-----------------------------------------------------------------------------
(* Specification of AgentCoordinator: workflows run one after another on one
   coordinator *)

MaxWorkflows == 2

\* AgentTask(...) as a workflow creates it; created stands for created_at
\* and tells the task objects of two calls apart.
AgentTask(agent_type, task_id, dependencies, priority, created) ==
  [agent_type |-> agent_type, task_id |-> task_id, dependencies |-> dependencies,
   priority |-> priority, status |-> "pending", created |-> created]

_create_monthly_analysis_workflow(created) ==
  << AgentTask("data_validator", "validate_billing_data", {}, 1, created),
     AgentTask("billing_analyzer", "analyze_billing", {"validate_billing_data"}, 2,
               created),
     AgentTask("category_manager", "identify_uncategorized", {"analyze_billing"}, 2,
               created),
     AgentTask("report_generator", "generate_monthly_report",
               {"analyze_billing", "identify_uncategorized"}, 3, created),
     AgentTask("notification_agent", "notify_completion",
               {"generate_monthly_report"}, 4, created) >>

_create_category_review_workflow(created) ==
  << AgentTask("category_manager", "load_uncategorized", {}, 1, created),
     AgentTask("category_manager", "suggest_categories", {"load_uncategorized"}, 2,
               created),
     AgentTask("notification_agent", "notify_review_ready", {"suggest_categories"}, 3,
               created) >>

_create_data_validation_workflow(created) ==
  << AgentTask("data_validator", "check_file_integrity", {}, 1, created),
     AgentTask("data_validator", "validate_data_consistency",
               {"check_file_integrity"}, 2, created),
     AgentTask("report_generator", "generate_validation_report",
               {"validate_data_consistency"}, 3, created) >>

_create_comprehensive_report_workflow(created) ==
  << AgentTask("billing_analyzer", "analyze_trends", {}, 1, created),
     AgentTask("category_manager", "category_analysis", {"analyze_trends"}, 2, created),
     AgentTask("report_generator", "generate_executive_summary",
               {"analyze_trends", "category_analysis"}, 3, created) >>

\* The keys of workflows in create_workflow.
WorkflowTypes ==
  {"monthly_analysis", "category_review", "data_validation", "comprehensive_report"}

\* create_workflow(workflow_type) for a key of workflows
create_workflow(workflow_type, created) ==
  IF workflow_type = "monthly_analysis" THEN _create_monthly_analysis_workflow(created)
  ELSE IF workflow_type = "category_review"
    THEN _create_category_review_workflow(created)
  ELSE IF workflow_type = "data_validation"
    THEN _create_data_validation_workflow(created)
  ELSE _create_comprehensive_report_workflow(created)

\* _dependencies_met(task): every dependency is the task_id of a task of
\* completed_tasks whose status is "completed".
_dependencies_met(completed, task) ==
  LET completed_task_ids ==
        {completed[i].task_id :
           i \in {j \in DOMAIN completed : completed[j].status = "completed"}}
  IN task.dependencies \subseteq completed_task_ids

\* ready_tasks of a round of the loop
ready_tasks(queue, completed) ==
  SelectSeq(queue, LAMBDA task : task.status = "pending"
                                  /\ _dependencies_met(completed, task))

\* running_tasks of a round of the loop
running_tasks(queue) == SelectSeq(queue, LAMBDA task : task.status = "running")

\* min(ready_tasks, key=lambda t: t.priority): the first of the tasks of the
\* lowest priority number.
MinByPriority(tasks) ==
  LET first == CHOOSE i \in DOMAIN tasks :
                 /\ \A j \in DOMAIN tasks : tasks[i].priority <= tasks[j].priority
                 /\ \A j \in 1..(i - 1) : tasks[j].priority > tasks[i].priority
  IN tasks[first]

\* task_queue.remove(task): the queue without its first element equal to task.
Remove(queue, task) ==
  LET at == CHOOSE i \in DOMAIN queue :
              queue[i] = task /\ \A j \in 1..(i - 1) : queue[j] # task
  IN SubSeq(queue, 1, at - 1) \o SubSeq(queue, at + 1, Len(queue))

\* Whether agent.execute(task) can raise: BillingAnalyzerAgent imports and
\* constructs the BillingAgent, ReportGeneratorAgent writes a file; the other
\* agents return a constant.
CanRaise(agent_type) == agent_type \in {"billing_analyzer", "report_generator"}

\* The observation of a step of the coordinator.
NoRound ==
  [op |-> "none", workflow_type |-> "", outcome |-> "", task_id |-> "", created |-> 0,
   tasks_completed |-> 0, results |-> <<>>]

InitWorkflow ==
  /\ rules = <<>>
  /\ client = FALSE
  /\ cache = <<>>
  /\ unknown = <<>>
  /\ stats = <<>>
  /\ learning_data = <<>>
  /\ session = NewSession
  /\ review = Idle
  /\ presented = <<>>
  /\ last = NoRound
  /\ calls = 0
  /\ rules_file = _save_rules(rules)
  /\ saving = NotSaving
  /\ cache_file = AbsentCache
  /\ unknown_parses = TRUE
  /\ task_queue = <<>>
  /\ completed_tasks = <<>>
  /\ workflow = NoWorkflow

\* execute_workflow(workflow_type) up to its loop: a type that is no key of
\* workflows raises ValueError, otherwise the tasks are appended to task_queue.
ExecuteWorkflow(workflow_type) ==
  /\ workflow.mode = "idle"
  /\ calls < MaxWorkflows
  /\ calls' = calls + 1
  /\ IF workflow_type \notin WorkflowTypes
       THEN /\ last' = [NoRound EXCEPT !.op = "execute_workflow",
                                      !.workflow_type = workflow_type,
                                      !.outcome = "raise", !.created = calls + 1]
            /\ UNCHANGED <<task_queue, workflow>>
       ELSE /\ task_queue' = task_queue \o create_workflow(workflow_type, calls + 1)
            /\ workflow' = [mode |-> "loop", workflow_type |-> workflow_type,
                            results |-> <<>>]
            /\ last' = [NoRound EXCEPT !.op = "execute_workflow",
                                      !.workflow_type = workflow_type,
                                      !.outcome = "loop", !.created = calls + 1]
  /\ UNCHANGED completed_tasks
  /\ UNCHANGED <<rules, client, cache, cache_file, unknown, unknown_parses, stats,
                 learning_data, session, review, presented, rules_file, saving>>

\* A round of the loop that finds a ready task: _execute_task of the ready
\* task of the lowest priority number (status "completed", or "failed" when
\* agent.execute raises), its result appended to results, the task moved
\* from task_queue to completed_tasks.
ExecuteTask(raises) ==
  /\ workflow.mode = "loop"
  /\ task_queue # <<>>
  /\ ready_tasks(task_queue, completed_tasks) # <<>>
  /\ LET task == MinByPriority(ready_tasks(task_queue, completed_tasks))
         done == [task EXCEPT !.status = IF raises THEN "failed" ELSE "completed"]
     IN /\ raises => CanRaise(task.agent_type)
        /\ task_queue' = Remove(task_queue, task)
        /\ completed_tasks' = Append(completed_tasks, done)
        /\ workflow' = [workflow EXCEPT !.results = Append(@, done.status)]
        /\ last' = [NoRound EXCEPT !.op = "_execute_task",
                                  !.workflow_type = workflow.workflow_type,
                                  !.outcome = done.status, !.task_id = task.task_id,
                                  !.created = task.created]
  /\ UNCHANGED <<rules, client, cache, cache_file, unknown, unknown_parses, stats,
                 learning_data, session, review, presented, calls, rules_file, saving>>

\* The loop ends, on an empty queue or on the break of the round that finds
\* no ready task and no running one, and execute_workflow returns its report.
\* (A round that finds no ready task but a running one continues; no task of
\* the queue is left with status "running" by _execute_task.)
Return ==
  /\ workflow.mode = "loop"
  /\ \/ task_queue = <<>>
     \/ /\ ready_tasks(task_queue, completed_tasks) = <<>>
        /\ running_tasks(task_queue) = <<>>
  /\ workflow' = NoWorkflow
  /\ last' = [NoRound EXCEPT !.op = "return",
                            !.workflow_type = workflow.workflow_type,
                            !.outcome = IF task_queue = <<>> THEN "done" ELSE "deadlock",
                            !.created = calls,
                            !.tasks_completed = Len(completed_tasks),
                            !.results = workflow.results]
  /\ UNCHANGED <<task_queue, completed_tasks>>
  /\ UNCHANGED <<rules, client, cache, cache_file, unknown, unknown_parses, stats,
                 learning_data, session, review, presented, calls, rules_file, saving>>

NextWorkflow ==
  \/ \E workflow_type \in WorkflowTypes \cup {"weekly_digest"} :
       ExecuteWorkflow(workflow_type)
  \/ \E raises \in BOOLEAN : ExecuteTask(raises)
  \/ Return

SpecWorkflow == InitWorkflow /\ [][NextWorkflow]_vars

\* The loop of execute_workflow runs on without waiting for anything.
FairWorkflow ==
  SpecWorkflow /\ WF_vars((\E raises \in BOOLEAN : ExecuteTask(raises)) \/ Return)

\* The tasks of completed_tasks with a task_id, of the workflow call created.
Executed(task_id, created) ==
  {i \in DOMAIN completed_tasks :
     /\ completed_tasks[i].task_id = task_id
     /\ completed_tasks[i].created = created}

\* The step is a round of the loop that executes a task.
TaskStep == last'.op = "_execute_task" /\ completed_tasks' # completed_tasks

\* C29, as stated: the task a round executes has each of the tasks it depends
\* on, those of its own workflow call, among the completed tasks with status
\* "completed".  Violated: the dependencies are looked up by task_id among
\* the completed tasks of every call the coordinator has run.
C29_AsStated ==
  [][TaskStep =>
       \A dep \in completed_tasks'[Len(completed_tasks')].dependencies :
         /\ Executed(dep, last'.created) # {}
         /\ \A i \in Executed(dep, last'.created) :
              completed_tasks[i].status = "completed"]_vars

\* C29, what the loop guarantees: the task a round executes was pending in
\* the queue, each of its dependencies is the task_id of some completed task
\* with status "completed", no ready task had a lower priority number, and
\* no task object is executed twice.
C29_ReadyByTaskId ==
  [][TaskStep =>
       LET done == completed_tasks'[Len(completed_tasks')]
           task == [done EXCEPT !.status = "pending"]
       IN /\ task \in Range(task_queue)
          /\ \A dep \in task.dependencies :
               \E i \in DOMAIN completed_tasks :
                 /\ completed_tasks[i].task_id = dep
                 /\ completed_tasks[i].status = "completed"
          /\ \A other \in Range(ready_tasks(task_queue, completed_tasks)) :
               task.priority <= other.priority
          /\ Executed(task.task_id, task.created) = {}
          /\ completed_tasks' = Append(completed_tasks, done)]_vars

\* C29: in the second call of a coordinator a task has been executed although
\* the task of that call it depends on has failed.
C29_Scenario ==
  /\ last.op = "_execute_task"
  /\ last.task_id = "notify_completion"
  /\ last.created = 2
  /\ \E i \in Executed("generate_monthly_report", 2) :
       completed_tasks[i].status = "failed"

\* The tasks of the workflow call created that reached status "completed".
CompletedOf(created) ==
  {i \in DOMAIN completed_tasks :
     /\ completed_tasks[i].created = created
     /\ completed_tasks[i].status = "completed"}

\* C30, as stated: the tasks_completed that execute_workflow reports is the
\* number of tasks of that workflow call that reached status "completed".
\* Violated: it is len(completed_tasks), which counts the failed tasks and
\* the tasks of the earlier calls of the coordinator.
C30_AsStated ==
  last.op = "return" => last.tasks_completed = Cardinality(CompletedOf(last.created))

\* C30, what is reported: the number of tasks the coordinator has executed
\* since it was constructed, whatever their status and their workflow call.
C30_CountsEveryExecutedTask ==
  last.op = "return" => last.tasks_completed = Len(completed_tasks)

\* C30: a call whose tasks all succeed, on a coordinator whose earlier calls
\* left nothing in the queue, ends with an empty queue and every task of the
\* call completed.
C30_CleanCallEmptiesQueue ==
  [][(last'.op = "return" /\ workflow.mode = "loop"
      /\ \A i \in DOMAIN completed_tasks : completed_tasks[i].status = "completed")
       => /\ task_queue' = <<>>
          /\ last'.outcome = "done"
          /\ Cardinality(CompletedOf(last'.created))
               = Len(create_workflow(last'.workflow_type, last'.created))]_vars

\* C30: every call of execute_workflow that has entered its loop returns.
C30_Terminates == (workflow.mode = "loop") ~> (workflow.mode = "idle")

====
